---- MODULE Spec2Model ----
(***************************************************************************)
(* NexusAI: the provider-agnostic streaming orchestrator.                  *)
(*                                                                         *)
(*   SpecSSE   the SSE decoders of the API layer (parseSSE,                *)
(*             parseOpenAISSE) driven by a network reader that delivers    *)
(*             the vendor's bytes in arbitrary chunks, and consumed by     *)
(*             the two for-await loops of context.tsx.                     *)
(*   Spec      AppProvider.sendMessage: calls that overlap, the vendor's    *)
(*             answer, the streaming loop and the local writes.            *)
(*   SpecSync  start-up loading, the sign-in load, the debounced push and    *)
(*             createChat.                                                 *)
(*   SpecPrefs the merge of the preferences of the remote snapshot.        *)
(*   SpecTurn  one call of sendMessage with its memory capture, and a      *)
(*             deleteChat that runs beside it.                             *)
(*   SpecDB    db.ts: saveChat, saveMessage, getMessagesByChat.            *)
(*   SpecMemory  store.ts: shouldAutoSaveMemory, extractMemoryContent.     *)
(*   SpecSSEPrefix  SpecSSE over lines with and without the data: prefix.  *)
(*   SpecTurnLive   SpecTurn with every pending await settling.            *)
(*   SpecChats  createChat, selectChat and deleteChat beside one call of   *)
(*             sendMessage: titles and the chat on screen.                 *)
(*   SpecDispatch  api.ts: fetchModels and streamChat, by provider id.     *)
(*   SpecDebounce  the sync effect's timer on a clock.                     *)
(*   SpecSearch  webSearchService.ts: searchWeb.                           *)
(*   SpecHistory  calls of sendMessage in a row with selectChat and        *)
(*             deleteChat: the history each request carries.               *)
(*   SpecGuard  sendMessage from its guards on provider, model and key.    *)
(*   SpecRestart  setPromptMode, a reload of the page, init.               *)
(*   SpecPicker  selectProvider and the answers of fetchModels.            *)
(*   SpecToggle  toggleMemoryItem and its local writes.                    *)
(***************************************************************************)
EXTENDS Integers, Sequences, FiniteSets, Bags, TLC

VARIABLES
    \* ---- SSE decoder (api.ts) ----
    dialect,      \* which parser decodes the response: "gemini" | "openai"
    consumer,     \* which loop consumes the generator: "sendMessage" | "enhancePrompt"
    frames,       \* the lines the vendor sends (kinds), in order
    terminated,   \* whether the vendor ends the last line with a newline
    pos,          \* number of units of the byte stream the reader has delivered
    buffer,       \* parseSSE: let buffer
    pending,      \* events the generator produces from the lines of the last read
    emitted,      \* chunks the generator has yielded to its consumer
    acc,          \* the consumer's fullContent
    dpc,          \* "reading" | "done" (reader done) | "returned" (consumer broke) | "threw"
    \* ---- AppProvider state (context.tsx) ----
    chats,            \* state.chats: chat ids, newest first
    currentChatId,    \* state.currentChatId (NoChat for null)
    messages,         \* state.messages
    isStreaming,      \* state.isStreaming
    streamingContent, \* state.streamingContent
    toasts,           \* the showToast calls made so far (a bag of { message, type })
    titles,           \* the title of each chat record made or stored locally, by chat id
    sel,              \* the call of selectChat: where it is suspended, and its locals
    \* ---- IndexedDB (db.ts) ----
    dbChats,          \* object store 'chats': the ids stored
    dbMessages,       \* object store 'messages', in the order written
    reads,            \* what getMessagesByChat returned, for the reads since the last write
    \* ---- the calls of sendMessage ----
    turn,             \* per call: where it is suspended, and its local variables
    del,              \* the call of deleteChat: where it is suspended, and its locals
    \* ---- start-up and cloud sync (context.tsx, firestoreService.ts) ----
    memories,         \* state.memories: memory ids, newest first
    dbMemories,       \* object store 'memories': the ids stored
    user,             \* useAuth().user: "none" | "uid"
    isCloudLoaded,    \* useState(false)
    initPc,           \* where init() is suspended
    cloudPc,          \* where loadFromCloud() is suspended
    cloudData,        \* loadFromCloud: const cloudData
    remote,           \* the Firestore document users/<uid>
    debounceTimer,    \* the pending setTimeout of the sync effect and what it closes over
    pushes,           \* the saveUserData calls issued so far, in order
    created,          \* number of createChat calls made
    saving,           \* ids of the chats whose db.saveChat is pending in createChat
    \* ---- preferences (context.tsx) ----
    prefs,            \* state.apiKeys, promptMode, memoryEnabled, currentProviderId, currentModelId
    localStorage,     \* the nexus_* keys of window.localStorage
    cloudPrefs,       \* loadFromCloud: cloudData.preferences
    prefPc,           \* "loaded" (cloudData has arrived) | "applied"
    \* ---- memory capture (store.ts) ----
    userText,         \* the text given to shouldAutoSaveMemory / extractMemoryContent
    capture,          \* what the two functions returned for it
    \* ---- provider dispatch (api.ts) and web search (webSearchService.ts) ----
    dispatched,       \* the calls of fetchModels / streamChat made so far and where each went
    search,           \* the call of searchWeb: where it is suspended, its locals, its result
    \* ---- time ----
    now,              \* the clock the timers run on, in seconds
    \* ---- settings: the model picker and the memory list (context.tsx) ----
    availableModels,  \* state.availableModels
    isLoadingModels,  \* state.isLoadingModels
    sp,               \* the calls of selectProvider made, and whether fetchModels is pending
    tog               \* the calls of toggleMemoryItem: those pending, and how many were made

sseVars == <<dialect, consumer, frames, terminated, pos, buffer, pending, emitted, acc, dpc>>

appVars == <<chats, currentChatId, messages, isStreaming, streamingContent, toasts>>
dbVars == <<dbChats, dbMessages>>
turnVars == <<appVars, dbVars, reads, turn, del>>

syncVars == <<memories, dbMemories, user, isCloudLoaded, initPc, cloudPc, cloudData,
              remote, debounceTimer, pushes, created, saving>>

prefVars == <<prefs, localStorage, cloudPrefs, prefPc>>

memVars == <<userText, capture>>

chatVars == <<titles, sel>>

svcVars == <<dispatched, search>>

timeVars == <<now>>

panelVars == <<availableModels, isLoadingModels, sp, tog>>

vars == <<sseVars, turnVars, syncVars, prefVars, memVars, chatVars, svcVars, timeVars, panelVars>>

\* What each specification leaves alone.
outsideSSE == <<turnVars, syncVars, prefVars, memVars, chatVars, svcVars, timeVars, panelVars>>
outsideTurn == <<sseVars, reads, del, syncVars, prefVars, memVars, chatVars, svcVars, timeVars, panelVars>>
outsideSaveChat == <<sseVars, reads, del, sel, syncVars, prefVars, memVars, svcVars, timeVars, panelVars>>
outsideSync == <<sseVars, currentChatId, messages, isStreaming, streamingContent,
                 dbMessages, reads, turn, del, prefVars, memVars, chatVars, svcVars, timeVars, panelVars>>
outsideCreateChat == <<sseVars, isStreaming, streamingContent, dbMessages, reads,
                       turn, del, sel, prefVars, memVars, svcVars, timeVars, panelVars>>
outsideDelete == <<sseVars, messages, isStreaming, streamingContent, toasts, reads,
                   turn, syncVars, prefVars, memVars, chatVars, svcVars, timeVars, panelVars>>
outsideCapture == <<sseVars, reads, del, user, isCloudLoaded, initPc, cloudPc, cloudData,
                    remote, debounceTimer, pushes, created, saving, prefVars, memVars,
                    chatVars, svcVars, timeVars, panelVars>>
outsideDB == <<sseVars, appVars, turn, del, syncVars, prefVars, memVars, chatVars, svcVars, timeVars, panelVars>>
outsidePrefs == <<sseVars, turnVars, syncVars, memVars, chatVars, svcVars, timeVars, panelVars>>
outsideMemory == <<sseVars, turnVars, syncVars, prefVars, chatVars, svcVars, timeVars, panelVars>>
outsideDispatch == <<sseVars, turnVars, syncVars, prefVars, memVars, chatVars, search, timeVars, panelVars>>
outsideSearch == <<sseVars, turnVars, syncVars, prefVars, memVars, chatVars, dispatched, timeVars, panelVars>>
outsideDebounce == <<sseVars, chats, currentChatId, messages, isStreaming, streamingContent,
                     dbVars, reads, turn, del, user, isCloudLoaded, initPc, cloudPc,
                     cloudData, created, saving, cloudPrefs, prefPc, memVars, chatVars,
                     svcVars, panelVars>>
outsideRestart == <<sseVars, currentChatId, messages, isStreaming, streamingContent,
                    dbMessages, reads, turn, del, memVars, chatVars, svcVars, timeVars, panelVars>>
outsidePicker == <<sseVars, chats, currentChatId, messages, isStreaming, streamingContent,
                   dbVars, reads, turn, del, syncVars, cloudPrefs, prefPc, memVars,
                   chatVars, svcVars, timeVars, tog>>
outsideToggle == <<sseVars, turnVars, user, isCloudLoaded, initPc, cloudPc, cloudData,
                   remote, debounceTimer, pushes, created, saving, prefVars, memVars,
                   chatVars, svcVars, timeVars, availableModels, isLoadingModels, sp>>
outsideSelect == <<sseVars, chats, isStreaming, streamingContent, toasts, dbVars, reads,
                   turn, del, titles, syncVars, prefVars, memVars, svcVars, timeVars, panelVars>>

\* ------------------------------------------------------------------ bounds
MaxLines == 3
MaxTurns == 2
MaxTokens == 1
MaxCalls == 2
MaxTime == 4
MaxTopics == 3
MaxSelects == 3
MaxToggles == 4
MaxCreated == 1
MaxSaved == 3
MaxClock == 2
MaxReads == 2
MaxPhrases == 3

\* ------------------------------------------------------------------ helpers
Front(s) == SubSeq(s, 1, Len(s) - 1)
Last(s) == s[Len(s)]

RECURSIVE Flatten(_)
Flatten(ss) == IF ss = <<>> THEN <<>> ELSE Head(ss) \o Flatten(Tail(ss))

Range(f) == {f[i] : i \in DOMAIN f}

SeqsUpTo(S, n) == UNION {[1..k -> S] : k \in 0..n}

\* ------------------------------------------------------------------ the wire
\* The byte stream is a sequence of units.  A unit is a run of bytes that the
\* model never splits: the newline, the field name "data:", a space, a JSON
\* document up to its last brace, that closing brace, or the literal [DONE].
LF == "\n"
DataField == "data:"
Space == " "
DoneSentinel == "[DONE]"
CloseBrace == "}"

Dialects == {"gemini", "openai"}
Consumers == {"sendMessage", "enhancePrompt"}

\* JSON documents the two vendor families send, by the unit that opens them.
\*   shape "candidates": {"candidates":[{"content":{"parts":[{"text":T}]},"finishReason":F}]}
\*   shape "choices":    {"choices":[{"delta":{"content":T},"finish_reason":F}]}
JSONDocs ==
    [u \in {"{G:a", "{G:stop", "{G:b+stop", "{O:a", "{O:stop", "{O:b+stop"} |->
        CASE u = "{G:a"      -> [shape |-> "candidates", text |-> <<"a">>, finish |-> FALSE]
          [] u = "{G:stop"   -> [shape |-> "candidates", text |-> <<>>,    finish |-> TRUE]
          [] u = "{G:b+stop" -> [shape |-> "candidates", text |-> <<"b">>, finish |-> TRUE]
          [] u = "{O:a"      -> [shape |-> "choices",    text |-> <<"a">>, finish |-> FALSE]
          [] u = "{O:stop"   -> [shape |-> "choices",    text |-> <<>>,    finish |-> TRUE]
          [] u = "{O:b+stop" -> [shape |-> "choices",    text |-> <<"b">>, finish |-> TRUE]]

\* JSON.parse: a value for exactly one whole document, SyntaxError otherwise.
JSONParse(json) ==
    IF Len(json) = 2 /\ json[1] \in DOMAIN JSONDocs /\ json[2] = CloseBrace
    THEN [ok |-> TRUE, data |-> JSONDocs[json[1]]]
    ELSE [ok |-> FALSE, data |-> [shape |-> "none", text |-> <<>>, finish |-> FALSE]]

\* ------------------------------------------------------------------ the vendor
LineKinds == {"text_a", "finish", "text_finish", "foreign",
              "malformed", "done_sentinel", "no_prefix", "blank"}

NativeDoc(d, what) == <<(IF d = "gemini" THEN "{G:" ELSE "{O:") \o what, CloseBrace>>
ForeignDoc(d) == <<(IF d = "gemini" THEN "{O:a" ELSE "{G:a"), CloseBrace>>
\* A document cut short before its closing brace.
Truncated(doc) == Front(doc)

\* The units of one line of the response, without its newline.
LineUnits(d, k) ==
    CASE k = "text_a"        -> <<DataField, Space>> \o NativeDoc(d, "a")
      [] k = "finish"        -> <<DataField, Space>> \o NativeDoc(d, "stop")
      [] k = "text_finish"   -> <<DataField, Space>> \o NativeDoc(d, "b+stop")
      [] k = "foreign"       -> <<DataField, Space>> \o ForeignDoc(d)
      [] k = "malformed"     -> <<DataField, Space>> \o Truncated(NativeDoc(d, "a"))
      [] k = "done_sentinel" -> <<DataField, Space, DoneSentinel>>
      [] k = "text_nospace"  -> <<DataField>> \o NativeDoc(d, "a")
      [] k = "no_prefix"     -> NativeDoc(d, "a")
      [] k = "blank"         -> <<>>

\* The whole response body: the lines joined by newlines, the last one with
\* or without its newline.
RECURSIVE Render(_, _, _)
Render(d, fs, term) ==
    IF fs = <<>> THEN <<>>
    ELSE IF Len(fs) = 1 THEN LineUnits(d, fs[1]) \o (IF term THEN <<LF>> ELSE <<>>)
    ELSE LineUnits(d, fs[1]) \o <<LF>> \o Render(d, Tail(fs), term)

Stream == Render(dialect, frames, terminated)

\* ------------------------------------------------------------------ parseSSE / parseOpenAISSE
\* buffer.split('\n'): always at least one element.
RECURSIVE Split(_)
Split(s) ==
    IF s = <<>> THEN << <<>> >>
    ELSE LET r == Split(Tail(s)) IN
         IF Head(s) = LF THEN << <<>> >> \o r
         ELSE << <<Head(s)>> \o Head(r) >> \o Tail(r)

\* buffer = lines.pop() || ''
PopLineDiscarded(lines) == <<>>
PopLine(lines) == Last(lines)

\* line.startsWith('data: ')
StartsWithData(line) == Len(line) >= 2 /\ line[1] = DataField /\ line[2] = Space

\* line.slice(6)
Slice6(line) == SubSeq(line, 3, Len(line))

\* String.prototype.trim
RECURSIVE TrimLeft(_)
TrimLeft(s) == IF s # <<>> /\ Head(s) = Space THEN TrimLeft(Tail(s)) ELSE s
RECURSIVE TrimRight(_)
TrimRight(s) == IF s # <<>> /\ Last(s) = Space THEN TrimRight(Front(s)) ELSE s
Trim(s) == TrimRight(TrimLeft(s))

Chunk(content, done) == [content |-> content, done |-> done, throw |-> FALSE]
Throw == [content |-> <<>>, done |-> FALSE, throw |-> TRUE]

\* data.candidates?.[0]?.content?.parts?.[0]?.text  /  data.candidates?.[0]?.finishReason
GeminiText(data) == IF data.shape = "candidates" THEN data.text ELSE <<>>
GeminiFinish(data) == data.shape = "candidates" /\ data.finish

\* data.choices?.[0]?.delta?.content  /  data.choices?.[0]?.finish_reason
OpenAIText(data) == IF data.shape = "choices" THEN data.text ELSE <<>>
OpenAIFinish(data) == data.shape = "choices" /\ data.finish

\* if (text) yield { content: text, done: false };
\* if (finish) yield { content: '', done: true };
Yields(text, finish) ==
    (IF text # <<>> THEN <<Chunk(text, FALSE)>> ELSE <<>>)
    \o (IF finish THEN <<Chunk(<<>>, TRUE)>> ELSE <<>>)

\* catch { }  -- a SyntaxError of JSON.parse ends the line, not the generator.
CatchSyntaxErrorRethrown == <<Throw>>
CatchSyntaxError == <<>>

\* The body of `for (const line of lines)`.
ParseLineGemini(line) ==
    IF StartsWithData(line)
    THEN LET json == Trim(Slice6(line)) IN
         IF json # <<>> /\ json # <<DoneSentinel>>
         THEN LET r == JSONParse(json) IN
              IF r.ok THEN Yields(GeminiText(r.data), GeminiFinish(r.data))
              ELSE CatchSyntaxError
         ELSE <<>>
    ELSE <<>>

ParseLineOpenAI(line) ==
    IF StartsWithData(line)
    THEN LET json == Trim(Slice6(line)) IN
         IF json # <<>> /\ json # <<DoneSentinel>>
         THEN LET r == JSONParse(json) IN
              IF r.ok THEN Yields(OpenAIText(r.data), OpenAIFinish(r.data))
              ELSE CatchSyntaxError
         ELSE <<>>
    ELSE <<>>

ParseLine(d, line) == IF d = "gemini" THEN ParseLineGemini(line) ELSE ParseLineOpenAI(line)

\* The events of a batch of lines, up to and including the first exception.
RECURSIVE ParseLines(_, _)
ParseLines(d, lines) ==
    IF lines = <<>> THEN <<>>
    ELSE LET ev == ParseLine(d, Head(lines)) IN
         IF ev # <<>> /\ Last(ev).throw THEN ev
         ELSE ev \o ParseLines(d, Tail(lines))

\* reader.read() resolves with the next n units of the body; the generator
\* appends them to the buffer, splits it and keeps the last piece.
ReadChunk(n) ==
    /\ dpc = "reading"
    /\ pending = <<>>
    /\ pos + n <= Len(Stream)
    /\ LET lines == Split(buffer \o SubSeq(Stream, pos + 1, pos + n)) IN
       /\ buffer' = PopLine(lines)
       /\ pending' = ParseLines(dialect, Front(lines))
    /\ pos' = pos + n
    /\ UNCHANGED <<dialect, consumer, frames, terminated, emitted, acc, dpc>>

\* reader.read() resolves with done: the generator returns.
ReadDone ==
    /\ dpc = "reading"
    /\ pending = <<>>
    /\ pos = Len(Stream)
    /\ dpc' = "done"
    /\ UNCHANGED <<dialect, consumer, frames, terminated, pos, buffer, pending, emitted, acc>>

\* if (chunk.done) break;   -- sendMessage only
BreaksOnDone(c) == c = "sendMessage"

\* One iteration of `for await (const chunk of stream)`.
Consume ==
    /\ dpc = "reading"
    /\ pending # <<>>
    /\ LET ev == Head(pending) IN
       IF ev.throw
       THEN /\ dpc' = "threw"
            /\ pending' = <<>>
            /\ UNCHANGED <<emitted, acc>>
       ELSE /\ emitted' = Append(emitted, [content |-> ev.content, done |-> ev.done])
            /\ acc' = acc \o ev.content
            /\ IF ev.done /\ BreaksOnDone(consumer)
               THEN dpc' = "returned" /\ pending' = <<>>
               ELSE dpc' = dpc /\ pending' = Tail(pending)
    /\ UNCHANGED <<dialect, consumer, frames, terminated, pos, buffer>>

\* ================================================================== memory capture
\* A text is a sequence of tokens: words, and the marks "." and "!".  Written
\* out, a word is preceded by white space (but for the first) and a mark
\* follows the token before it directly.  No text here holds ':', '-', ','
\* or ';'.
Marks == {".", "!"}
IsWord(w) == w \notin Marks

\* The i flag: the token in lower case.
Lower(w) ==
    CASE w = "Call" -> "call"
      [] w = "Ada"  -> "ada"
      [] OTHER      -> w

\* string.length of a token, as far as `> 2` can tell.
Chars(w) ==
    CASE w \in {"i", ".", "!"}             -> 1
      [] w \in {"my", "is", "am", "me"}    -> 2
      [] OTHER                             -> 3

RECURSIVE Length(_)
Length(s) ==
    IF s = <<>> THEN 0
    ELSE Length(Front(s)) + Chars(Last(s)) + (IF Len(s) > 1 /\ IsWord(Last(s)) THEN 1 ELSE 0)

\* A pattern of words joined by \s+ (each element the alternatives of one word)
\* matches at token i.  \b holds at both ends of a token.
WordsAt(s, i, pat) ==
    /\ i + Len(pat) - 1 <= Len(s)
    /\ \A k \in 1..Len(pat) : IsWord(s[i + k - 1]) /\ Lower(s[i + k - 1]) \in pat[k]

\* ... followed by \s+ and something: the next token is a word.
WordFollows(s, i, pat) ==
    /\ WordsAt(s, i, pat)
    /\ i + Len(pat) <= Len(s)
    /\ IsWord(s[i + Len(pat)])

Least(S) == CHOOSE i \in S : \A j \in S : i <= j

\* const extracted when nothing is captured.
NullMemory == [title |-> "null", value |-> <<>>, type |-> "null"]

\* content.match(/\b<pat>\s+(\w+)/i): the leftmost match and its group 1.
MatchWord(s, pat) ==
    LET at == {i \in 1..Len(s) : WordFollows(s, i, pat)}
    IN IF at = {} THEN <<>> ELSE <<s[Least(at) + Len(pat)]>>

\* a || b for match results
OrMatch(a, b) == IF a # <<>> THEN a ELSE b

nameMatch(s) ==
    OrMatch(MatchWord(s, <<{"my"}, {"name"}, {"is"}>>),
    OrMatch(MatchWord(s, <<{"i"}, {"am"}>>),
            MatchWord(s, <<{"call"}, {"me"}>>)))

\* content.match(/\b(?:remember|don'?t\s+forget)\s+that\s+(.+)/i): group 1 is the
\* rest of the text.
RememberPatterns == {<<{"remember"}, {"that"}>>, <<{"dont", "don't"}, {"forget"}, {"that"}>>}

rememberMatch(s) ==
    LET at == {i \in 1..Len(s) : \E pat \in RememberPatterns : WordFollows(s, i, pat)}
        i == Least(at)
        pat == CHOOSE q \in RememberPatterns : WordFollows(s, i, q)
    IN IF at = {} THEN <<>> ELSE SubSeq(s, i + Len(pat), Len(s))

\* .replace(/[.!,\s]+$/, '')
RECURSIVE StripMarks(_)
StripMarks(s) ==
    IF s # <<>> /\ ~IsWord(Last(s)) THEN StripMarks(Front(s)) ELSE s

\* colonMatch needs ':' or '-', beforeSaveMatch ',' or ';'.
colonMatch(s) == <<>>
beforeSaveMatch(s) == <<>>

\* /^(.+?)[\s,]*(?:save|remember|store|memorize)\s*(?:this|that|it)?
\*   (?:\s+(?:in|to)\s+(?:your\s+)?memory)?\s*[.!]?\s*$/i
Triggers == {"save", "remember", "store", "memorize"}
Pronouns == {"this", "that", "it"}
SaveTails ==
    {<<Triggers>>, <<Triggers, Pronouns>>,
     <<Triggers, {"in", "to"}, {"memory"}>>, <<Triggers, {"in", "to"}, {"your"}, {"memory"}>>,
     <<Triggers, Pronouns, {"in", "to"}, {"memory"}>>,
     <<Triggers, Pronouns, {"in", "to"}, {"your"}, {"memory"}>>}

\* the text from token i to its end is one of the tails, with one mark or none
EndsWithSave(s, i) ==
    \E pat \in SaveTails :
        /\ WordsAt(s, i, pat)
        /\ \/ i + Len(pat) - 1 = Len(s)
           \/ i + Len(pat) = Len(s) /\ ~IsWord(Last(s))

\* group 1 of genericSaveMatch: lazy, at least one character
genericSaveMatch(s) ==
    LET at == {i \in 2..Len(s) : EndsWithSave(s, i)}
    IN IF at = {} THEN <<>> ELSE SubSeq(s, 1, Least(at) - 1)

\* value.match(/^(?:my\s+)?(\w+(?:\s+\w+)?)\s+(?:is|are)\s+/i): group 1 is the n
\* words from token `from`, followed by is or are and one more word.
TitleAt(v, from, n) ==
    /\ from + n + 1 <= Len(v)
    /\ \A k \in 1..(from + n + 1) : IsWord(v[k])
    /\ from = 2 => Lower(v[1]) = "my"
    /\ Lower(v[from + n]) \in {"is", "are"}

\* titleMatch[1].charAt(0).toUpperCase() + titleMatch[1].slice(1)
Capitalized(words) == [capitalized |-> words]

\* the alternatives in the order the regular expression tries them
titleOf(v) ==
    CASE TitleAt(v, 2, 2) -> Capitalized(SubSeq(v, 2, 3))
      [] TitleAt(v, 2, 1) -> Capitalized(SubSeq(v, 2, 2))
      [] TitleAt(v, 1, 2) -> Capitalized(SubSeq(v, 1, 2))
      [] TitleAt(v, 1, 1) -> Capitalized(SubSeq(v, 1, 1))
      [] OTHER            -> "Note"

\* (a variant that looks for "remember that" before it looks for a name)
extractRememberFirst(s) ==
    IF rememberMatch(s) # <<>>
    THEN [title |-> "Fact", value |-> StripMarks(rememberMatch(s)), type |-> "fact"]
    ELSE IF nameMatch(s) # <<>>
    THEN [title |-> "Name", value |-> nameMatch(s), type |-> "user_profile"]
    ELSE NullMemory

extractMemoryContent(s) ==
    IF nameMatch(s) # <<>>
    THEN [title |-> "Name", value |-> nameMatch(s), type |-> "user_profile"]
    ELSE IF rememberMatch(s) # <<>>
    THEN [title |-> "Fact", value |-> StripMarks(rememberMatch(s)), type |-> "fact"]
    ELSE IF colonMatch(s) # <<>>
    THEN [title |-> "Note", value |-> StripMarks(colonMatch(s)), type |-> "fact"]
    ELSE IF beforeSaveMatch(s) # <<>>
    THEN [title |-> titleOf(beforeSaveMatch(s)), value |-> beforeSaveMatch(s), type |-> "fact"]
    ELSE IF genericSaveMatch(s) # <<>> /\ Length(genericSaveMatch(s)) > 2
    THEN [title |-> titleOf(genericSaveMatch(s)), value |-> genericSaveMatch(s), type |-> "fact"]
    ELSE NullMemory

\* SAVE_PATTERNS: the patterns that are words joined by \s+ ...
AnyWord == {"save", "remember", "store", "keep", "note", "memorize", "this", "that", "it",
            "my", "name", "is", "i", "am", "call", "me", "ada", "the", "sky", "blue",
            "dont", "forget"}
SAVE_PATTERNS ==
    {<<{"save", "remember", "store", "keep", "note", "memorize"}, Pronouns>>,
     <<{"save", "store", "put", "add", "keep"}, {"in", "to"}, {"memory"}>>,
     <<{"save", "store", "put", "add", "keep"}, {"this"}, {"in", "to"}, {"memory"}>>,
     <<{"save", "store", "put", "add", "keep"}, {"in", "to"}, {"your"}, {"memory"}>>,
     <<{"save", "store", "put", "add", "keep"}, {"this"}, {"in", "to"}, {"your"}, {"memory"}>>,
     <<{"memorize"}, AnyWord>>,
     <<{"my"}, {"name"}, {"is"}, AnyWord>>,
     <<{"i"}, {"am"}, AnyWord>>,
     <<{"call"}, {"me"}, AnyWord>>,
     <<{"remember"}, {"that"}, AnyWord>>,
     <<{"store"}, {"in"}, {"memory"}>>,
     <<{"dont", "don't"}, {"forget"}>>,
     <<{"keep"}, {"in"}, {"mind"}>>,
     <<{"please"}, {"save", "remember", "store", "memorize"}>>}

\* ... /\bsave\s+(.+)\s+to\s+memory/i ...
SaveToMemory(s) ==
    \E i, j \in 1..Len(s) :
        /\ WordFollows(s, i, <<{"save"}>>)
        /\ j >= i + 2
        /\ WordsAt(s, j, <<{"to"}, {"memory"}>>)

\* ... and /,?\s*(save\s+it|remember\s+it|memorize\s+it|store\s+it)\s*[.!]?\s*$/i
EndsWithSaveIt(s) ==
    \E i \in 1..Len(s) :
        /\ WordsAt(s, i, <<Triggers, {"it"}>>)
        /\ \/ i + 1 = Len(s)
           \/ i + 2 = Len(s) /\ ~IsWord(Last(s))

shouldAutoSaveMemory(s) ==
    \/ \E pat \in SAVE_PATTERNS : \E i \in 1..Len(s) : WordsAt(s, i, pat)
    \/ SaveToMemory(s)
    \/ EndsWithSaveIt(s)

\* The texts: up to MaxPhrases of these phrases, one after the other.
Phrases ==
    {<<"remember", "that">>, <<"my", "name", "is">>, <<"Ada">>, <<"the", "sky", "is", "blue">>,
     <<"i", "am">>, <<"Call", "me">>, <<".">>, <<"dont", "forget", "that">>}
Texts == {Flatten(ps) : ps \in SeqsUpTo(Phrases, MaxPhrases)}

Pending == [pc |-> "pending", shouldSave |-> FALSE, extracted |-> NullMemory]

\* const shouldSave = shouldAutoSaveMemory(content); and extractMemoryContent(content)
extractMemory ==
    /\ capture.pc = "pending"
    /\ capture' = [pc |-> "done", shouldSave |-> shouldAutoSaveMemory(userText),
                   extracted |-> extractMemoryContent(userText)]
    /\ UNCHANGED userText

\* ================================================================== sendMessage
NoChat == "null"
Turns == 1..MaxTurns

\* The id db.generateId() gives the chat that call t of sendMessage makes.
SentChatIds == <<"T1", "T2", "T3", "T4">>

\* content.slice(0, n)
SliceTo(s, n) == SubSeq(s, 1, IF Len(s) < n THEN Len(s) ELSE n)

\* title: content.slice(0, 50)
TitleLength == 50

\* PROVIDERS (store.ts); api.ts has an adapter for the first five.
ProviderIds == {"gemini", "groq", "openrouter", "huggingface", "nvidia", "zai"}

\* The adapters: each issues its request and, on the response, either throws
\* or hands the body to a decoder.
\*   if (!res.ok) throw new Error('... API error');  yield* parse...(res);
streamGeminiUnchecked(resOk) == "parseSSE"
streamGemini(resOk) == IF ~resOk THEN "Gemini API error" ELSE "parseSSE"
streamGroq(resOk) == IF ~resOk THEN "Groq API error" ELSE "parseOpenAISSE"
streamOpenRouter(resOk) == IF ~resOk THEN "OpenRouter API error" ELSE "parseOpenAISSE"
streamHuggingFace(resOk) == IF ~resOk THEN "Hugging Face API error" ELSE "parseOpenAISSE"
streamNvidia(resOk) == IF ~resOk THEN "NVIDIA API error" ELSE "parseOpenAISSE"

Decoders == {"parseSSE", "parseOpenAISSE"}

\* streamChat: switch (providerId).  The default branch throws before any
\* request is made.
HasAdapter(p) == p \in {"gemini", "groq", "openrouter", "huggingface", "nvidia"}

streamChat(p, resOk) ==
    CASE p = "gemini"      -> streamGemini(resOk)
      [] p = "groq"        -> streamGroq(resOk)
      [] p = "openrouter"  -> streamOpenRouter(resOk)
      [] p = "huggingface" -> streamHuggingFace(resOk)
      [] p = "nvidia"      -> streamNvidia(resOk)
      [] OTHER             -> "Unknown provider"

\* fetchModels: switch (providerId), the same five cases and the same default.
fetchModels(p) ==
    CASE p = "gemini"      -> "fetchGeminiModels"
      [] p = "groq"        -> "fetchGroqModels"
      [] p = "openrouter"  -> "fetchOpenRouterModels"
      [] p = "huggingface" -> "fetchHuggingFaceModels"
      [] p = "nvidia"      -> "fetchNvidiaModels"
      [] OTHER             -> "Unknown provider"

\* The adapter streamChat delegates to (yield* stream...), by its name.
streamAdapter(p) ==
    CASE p = "gemini"      -> "streamGemini"
      [] p = "groq"        -> "streamGroq"
      [] p = "openrouter"  -> "streamOpenRouter"
      [] p = "huggingface" -> "streamHuggingFace"
      [] p = "nvidia"      -> "streamNvidia"
      [] OTHER             -> "Unknown provider"

\* Ids that are not in PROVIDERS (a stale nexus_provider in localStorage).
UnlistedIds == {"mistral"}

\* One call of fetchModels(providerId, apiKey): where it went.
callFetchModels(p) ==
    /\ Len(dispatched) < MaxCalls
    /\ dispatched' = Append(dispatched,
           [op |-> "fetchModels", providerId |-> p, adapter |-> fetchModels(p),
            outcome |-> fetchModels(p), tokens |-> 0])

\* One call of streamChat(providerId, ...), consumed to its end: where it
\* went, what came of it and how many chunks it yielded.  The default branch
\* throws before anything is yielded; an adapter throws on a non-2xx response
\* before it yields, and yields the decoder's chunks otherwise.
callStreamChat(p, resOk, n) ==
    /\ Len(dispatched) < MaxCalls
    /\ dispatched' = Append(dispatched,
           [op |-> "streamChat", providerId |-> p, adapter |-> streamAdapter(p),
            outcome |-> streamChat(p, resOk),
            tokens |-> IF streamChat(p, resOk) \in Decoders THEN n ELSE 0])

\* A call of sendMessage that has not been made yet.
IdleTurn ==
    [pc |-> "idle", chatId |-> NoChat, status |-> "none", error |-> "none",
     fullContent |-> <<>>, extracted |-> NullMemory, content |-> <<>>, seen |-> <<>>]

\* const userMsg / const assistantMsg.  db.generateId() gives every message
\* its own id: here the call and the role.
UserMsg(t, c) == [turn |-> t, role |-> "user", chatId |-> c, content |-> <<>>]
AssistantMsg(t, c, text) == [turn |-> t, role |-> "assistant", chatId |-> c, content |-> text]

\* The i-th token the vendor streams in answer to call t.
Token(t, i) == <<t, i>>

\* const memory: Memory = { id: db.generateId(), type: extracted.type, ... }: the
\* memory captured by call t.
Memory(t, e) == [turn |-> t, type |-> e.type, title |-> e.title, content |-> e.value]

\* The call itself, up to its first await.  The guards on provider, model and
\* key pass (a provider and a model are selected and the key is saved).
\*   const extracted = shouldSave ? extractMemoryContent(content) : null;
\*   let chatId = state.currentChatId; if (!chatId) { ... await db.saveChat(chat)
\*   ... await db.saveMessage(userMsg)
sendMessage(t, said) ==
    /\ turn[t].pc = "idle"
    /\ \A u \in 1..(t - 1) : turn[u].pc # "idle"
    /\ turn' = [turn EXCEPT ![t].pc = IF currentChatId = NoChat THEN "savingChat"
                                      ELSE "savingUser",
                            ![t].chatId = currentChatId,
                            ![t].content = said,
                            ![t].seen = messages,
                            ![t].extracted = IF shouldAutoSaveMemory(said)
                                             THEN extractMemoryContent(said)
                                             ELSE NullMemory]
    /\ UNCHANGED <<appVars, dbVars>>

\* The request of a call, built inside the try from the state the callback
\* closed over when it was called:
\*   const messages = state.messages.map(m => ({ role: m.role, content: m.content }));
\*   messages.push({ role: 'user', content });
ToWire(list) == [i \in 1..Len(list) |-> [role |-> list[i].role, content |-> list[i].content]]
RequestMessages(t) ==
    Append(ToWire(turn[t].seen), [role |-> "user", content |-> turn[t].content])

\* animated-ai-chat.tsx handleKeyDown / handleSend: if (value.trim() && !isStreaming)
handleSend(t, said) ==
    /\ ~isStreaming
    /\ sendMessage(t, said)

\* App.tsx SelectionMenu onAction: sendMessage(prompt)
selectionAction(t, said) == sendMessage(t, said)

\* await db.saveChat(chat) resolves; chatId = chat.id; setState(chats, currentChatId).
\*   const chat = { id: db.generateId(), title: content.slice(0, 50), ... }
saveChatResolves(t) ==
    /\ turn[t].pc = "savingChat"
    /\ dbChats' = dbChats \cup {SentChatIds[t]}
    /\ titles' = (SentChatIds[t] :> SliceTo(turn[t].content, TitleLength)) @@ titles
    /\ chats' = <<SentChatIds[t]>> \o chats
    /\ currentChatId' = SentChatIds[t]
    /\ turn' = [turn EXCEPT ![t].pc = "savingUser", ![t].chatId = SentChatIds[t]]
    /\ UNCHANGED <<messages, isStreaming, streamingContent, toasts, dbMessages>>

\* await db.saveChat(chat) rejects: sendMessage rejects, outside its try.
saveChatRejects(t) ==
    /\ turn[t].pc = "savingChat"
    /\ turn' = [turn EXCEPT ![t].pc = "aborted"]
    /\ UNCHANGED <<appVars, dbVars>>

\* await db.saveMessage(userMsg) resolves; setState(messages); then, if (extracted),
\* await db.saveMemory(memory); otherwise setState(isStreaming: true,
\* streamingContent: ''); api.streamChat(state.currentProviderId, ...) and the
\* first next() of the for await, which runs the adapter up to its fetch.
saveUserResolves(t) ==
    /\ turn[t].pc = "savingUser"
    /\ dbMessages' = Append(dbMessages, UserMsg(t, turn[t].chatId))
    /\ messages' = Append(messages, UserMsg(t, turn[t].chatId))
    /\ IF turn[t].extracted # NullMemory
       THEN /\ turn' = [turn EXCEPT ![t].pc = "savingMemory"]
            /\ UNCHANGED <<isStreaming, streamingContent>>
       ELSE /\ isStreaming' = TRUE
            /\ streamingContent' = <<>>
            /\ turn' = [turn EXCEPT ![t].pc = "awaitingResponse"]
    /\ UNCHANGED <<chats, currentChatId, toasts, dbChats>>

\* (a variant that swallows the rejection and goes on to the request)
saveUserRejectsIgnored(t) ==
    /\ turn[t].pc = "savingUser"
    /\ messages' = Append(messages, UserMsg(t, turn[t].chatId))
    /\ isStreaming' = TRUE
    /\ streamingContent' = <<>>
    /\ turn' = [turn EXCEPT ![t].pc = "awaitingResponse"]
    /\ UNCHANGED <<chats, currentChatId, toasts, dbVars>>

\* await db.saveMessage(userMsg) rejects: sendMessage rejects, outside its try.
saveUserRejects(t) ==
    /\ turn[t].pc = "savingUser"
    /\ turn' = [turn EXCEPT ![t].pc = "aborted"]
    /\ UNCHANGED <<appVars, dbVars>>

\* showToast(message, type)
Toast(message, type) == [message |-> message, type |-> type]

\* (a variant that puts the memory in state and not in the store)
saveMemoryStateOnly(t) ==
    /\ turn[t].pc = "savingMemory"
    /\ memories' = Append(memories, Memory(t, turn[t].extracted))
    /\ toasts' = toasts (+) SetToBag({Toast(<<"Saved:", turn[t].extracted.title>>, "success")})
    /\ isStreaming' = TRUE
    /\ streamingContent' = <<>>
    /\ turn' = [turn EXCEPT ![t].pc = "awaitingResponse"]
    /\ UNCHANGED <<chats, currentChatId, messages, dbVars, dbMemories>>

\* await db.saveMemory(memory) resolves; setState(memories); showToast(`Saved: ...`,
\* 'success'); setState(isStreaming: true, streamingContent: ''); the request.
saveMemoryResolves(t) ==
    /\ turn[t].pc = "savingMemory"
    /\ dbMemories' = dbMemories \cup {Memory(t, turn[t].extracted)}
    /\ memories' = Append(memories, Memory(t, turn[t].extracted))
    /\ toasts' = toasts (+) SetToBag({Toast(<<"Saved:", turn[t].extracted.title>>, "success")})
    /\ isStreaming' = TRUE
    /\ streamingContent' = <<>>
    /\ turn' = [turn EXCEPT ![t].pc = "awaitingResponse"]
    /\ UNCHANGED <<chats, currentChatId, messages, dbVars>>

\* await db.saveMemory(memory) rejects: sendMessage rejects, outside its try.
saveMemoryRejects(t) ==
    /\ turn[t].pc = "savingMemory"
    /\ turn' = [turn EXCEPT ![t].pc = "aborted"]
    /\ UNCHANGED <<appVars, dbVars, memories, dbMemories>>

\* (a variant that commits what was accumulated when the error came)
CaughtCommitsPartial(t, err, st) ==
    /\ isStreaming' = FALSE
    /\ streamingContent' = <<>>
    /\ messages' = Append(messages, AssistantMsg(t, turn[t].chatId, turn[t].fullContent))
    /\ dbMessages' = Append(dbMessages, AssistantMsg(t, turn[t].chatId, turn[t].fullContent))
    /\ turn' = [turn EXCEPT ![t].pc = "failed", ![t].error = err, ![t].status = st]
    /\ toasts' = toasts (+) SetToBag({Toast(err, "error")})
    /\ UNCHANGED <<chats, currentChatId, dbChats>>

\* (a variant whose catch does not leave the streaming state)
CaughtKeepsStreaming(t, err, st) ==
    /\ toasts' = toasts (+) SetToBag({Toast(err, "error")})
    /\ turn' = [turn EXCEPT ![t].pc = "failed", ![t].error = err, ![t].status = st]
    /\ UNCHANGED <<chats, currentChatId, messages, isStreaming, streamingContent, dbVars>>

\* catch (err) { showToast(...); setState(isStreaming: false, streamingContent: '') }
\* err is the error's message, st the status of the response if one came.
Caught(t, err, st) ==
    /\ toasts' = toasts (+) SetToBag({Toast(err, "error")})
    /\ isStreaming' = FALSE
    /\ streamingContent' = <<>>
    /\ turn' = [turn EXCEPT ![t].pc = "failed", ![t].error = err, ![t].status = st]
    /\ UNCHANGED <<chats, currentChatId, messages, dbVars>>

\* The vendor answers the fetch of the adapter of p = state.currentProviderId,
\* with a 2xx status or another.
response(t, p, resOk) ==
    /\ turn[t].pc = "awaitingResponse"
    /\ HasAdapter(p)
    /\ LET r == streamChat(p, resOk) IN
       IF r \in Decoders
       THEN /\ turn' = [turn EXCEPT ![t].pc = "streaming",
                                    ![t].status = IF resOk THEN "2xx" ELSE "non2xx"]
            /\ UNCHANGED <<appVars, dbVars>>
       ELSE Caught(t, r, IF resOk THEN "2xx" ELSE "non2xx")

\* streamChat's default branch: no adapter, no request.
unknownProvider(t, p) ==
    /\ turn[t].pc = "awaitingResponse"
    /\ ~HasAdapter(p)
    /\ Caught(t, streamChat(p, TRUE), "none")

\* The fetch rejects (no connection).
fetchRejects(t) ==
    /\ turn[t].pc = "awaitingResponse"
    /\ Caught(t, "Failed to fetch", "none")

\* if (now - lastUpdate > 40) setState(streamingContent: fullContent)
Throttled(late, shown, full) == IF late THEN full ELSE shown

\* One iteration of the for await with a chunk that carries text; `late` says
\* whether more than 40 ms have passed since the last update.
token(t, late) ==
    /\ turn[t].pc = "streaming"
    /\ Len(turn[t].fullContent) < MaxTokens
    /\ LET full == Append(turn[t].fullContent, Token(t, Len(turn[t].fullContent) + 1)) IN
       /\ turn' = [turn EXCEPT ![t].fullContent = full]
       /\ streamingContent' = Throttled(late, streamingContent, full)
    /\ UNCHANGED <<chats, currentChatId, messages, isStreaming, toasts, dbVars>>

\* (a variant without the final update after the loop)
streamEndsNoFlush(t) ==
    /\ turn[t].pc = "streaming"
    /\ turn' = [turn EXCEPT ![t].pc = "savingAssistant"]
    /\ UNCHANGED <<appVars, dbVars>>

\* The loop ends (a chunk with done, or the generator returns):
\* setState(streamingContent: fullContent); await db.saveMessage(assistantMsg)
streamEnds(t) ==
    /\ turn[t].pc = "streaming"
    /\ streamingContent' = turn[t].fullContent
    /\ turn' = [turn EXCEPT ![t].pc = "savingAssistant"]
    /\ UNCHANGED <<chats, currentChatId, messages, isStreaming, toasts, dbVars>>

\* reader.read() rejects in the decoder (the connection drops).
streamError(t) ==
    /\ turn[t].pc = "streaming"
    /\ Caught(t, "network error", turn[t].status)

\* await db.saveMessage(assistantMsg) resolves; setState(messages, isStreaming: false,
\* streamingContent: '')
saveAssistantResolves(t) ==
    /\ turn[t].pc = "savingAssistant"
    /\ dbMessages' = Append(dbMessages, AssistantMsg(t, turn[t].chatId, turn[t].fullContent))
    /\ messages' = Append(messages, AssistantMsg(t, turn[t].chatId, turn[t].fullContent))
    /\ isStreaming' = FALSE
    /\ streamingContent' = <<>>
    /\ turn' = [turn EXCEPT ![t].pc = "done"]
    /\ UNCHANGED <<chats, currentChatId, toasts, dbChats>>

\* await db.saveMessage(assistantMsg) rejects, inside the try.
saveAssistantRejects(t) ==
    /\ turn[t].pc = "savingAssistant"
    /\ Caught(t, "store error", turn[t].status)

\* ------------------------------------------------------------------ deleteChat
\* A call of deleteChat that has not been made yet.
IdleDelete == [pc |-> "idle", chatId |-> NoChat, msgs |-> {}]

\* deleteChat(chatId) of context.tsx, for a chat of the sidebar, up to the first
\* await of db.deleteChat.
deleteChat(c) ==
    /\ del.pc = "idle"
    /\ c \in Range(chats)
    /\ del' = [del EXCEPT !.pc = "deletingChat", !.chatId = c]
    /\ UNCHANGED <<chats, currentChatId, dbVars>>

\* db.deleteChat: store.delete(id) succeeds; then getMessagesByChat(id) is awaited.
chatRowDeleted ==
    /\ del.pc = "deletingChat"
    /\ dbChats' = dbChats \ {del.chatId}
    /\ del' = [del EXCEPT !.pc = "readingMessages"]
    /\ UNCHANGED <<chats, currentChatId, dbMessages>>

\* const messages = await getMessagesByChat(id): the messages of the chat that
\* are in the store now.
messagesRead ==
    /\ del.pc = "readingMessages"
    /\ del' = [del EXCEPT !.pc = "deletingMessages",
                          !.msgs = {m \in Range(dbMessages) : m.chatId = del.chatId}]
    /\ UNCHANGED <<chats, currentChatId, dbVars>>

\* for (const msg of messages) await deleteMessage(msg.id): one iteration.  The
\* loop goes by createdAt; what is left at the end is the same in any order.
messageDeleted(m) ==
    /\ del.pc = "deletingMessages"
    /\ m \in del.msgs
    /\ dbMessages' = SelectSeq(dbMessages, LAMBDA x : x # m)
    /\ del' = [del EXCEPT !.msgs = del.msgs \ {m}]
    /\ UNCHANGED <<chats, currentChatId, dbChats>>

\* The loop is over and db.deleteChat resolves; context.tsx:
\*   setState(chats: prev.chats.filter(c => c.id !== chatId),
\*            currentChatId: prev.currentChatId === chatId ? null : prev.currentChatId)
deleteChatDone ==
    /\ del.pc = "deletingMessages"
    /\ del.msgs = {}
    /\ chats' = SelectSeq(chats, LAMBDA c : c # del.chatId)
    /\ currentChatId' = IF currentChatId = del.chatId THEN NoChat ELSE currentChatId
    /\ del' = [del EXCEPT !.pc = "done"]
    /\ UNCHANGED dbVars

\* One of db.deleteChat's requests fails: deleteChat rejects, nothing catches it.
deleteChatRejects ==
    /\ del.pc \in {"deletingChat", "readingMessages", "deletingMessages"}
    /\ del' = [del EXCEPT !.pc = "rejected"]
    /\ UNCHANGED <<chats, currentChatId, dbVars>>

\* ------------------------------------------------------------------ start-up and cloud sync
\* The chats and memories of the fixtures, with the timestamps the local store
\* sorts them by.
ChatIds == {"A", "B", "C", "D", "E", "F"}
MemoryIds == {"M", "N"}
UpdatedAt ==
    [c \in ChatIds |-> CASE c = "A" -> 1 [] c = "C" -> 2 [] c = "B" -> 3
                         [] c = "D" -> 4 [] c = "E" -> 5 [] c = "F" -> 6]
CreatedAt == [m \in MemoryIds |-> CASE m = "M" -> 1 [] m = "N" -> 2]

\* request.result.sort((a, b) => new Date(b.<at>).getTime() - new Date(a.<at>).getTime())
RECURSIVE SortNewestFirst(_, _)
SortNewestFirst(S, at) ==
    IF S = {} THEN <<>>
    ELSE LET x == CHOOSE x \in S : \A y \in S : at[y] <= at[x]
         IN <<x>> \o SortNewestFirst(S \ {x}, at)

getAllChats(store) == SortNewestFirst(store, UpdatedAt)
getAllMemories(store) == SortNewestFirst(store, CreatedAt)

\* A field of the remote document: missing, or an array (possibly empty).
Absent == [has |-> FALSE, list |-> <<>>]
Field(list) == [has |-> TRUE, list |-> list]

NoDoc == [exists |-> FALSE, chats |-> Absent, memories |-> Absent]
Null == [null |-> TRUE, chats |-> Absent, memories |-> Absent]

\* firestoreService.loadUserData: the document's data, or null when the document
\* does not exist and also when getDoc throws.
loadUserData(document, throws) ==
    IF throws \/ ~document.exists THEN Null
    ELSE [null |-> FALSE, chats |-> document.chats, memories |-> document.memories]

\* firestoreService.saveUserData: setDoc(userRef, data, { merge: true }) with
\* data = { preferences, chats, memories }.
saveUserData(document, data) ==
    [exists |-> TRUE, chats |-> Field(data.chats), memories |-> Field(data.memories)]

\* if (cloudData.chats), if (cloudData.memories): an array is truthy, empty or not.
Truthy(field) == field.has

\* The sync effect.  if (!user || !isCloudLoaded) return; otherwise a timer of
\* 2000 ms is set whose callback closes over state.chats and state.memories; the
\* effect's cleanup clears the timer set by the previous run.
NoTimer == [armed |-> FALSE, chats |-> <<>>, memories |-> <<>>]
\* (a variant whose cleanup leaves a pending timer running: a throttle)
syncEffectNoRestart(u, loaded, c, m) ==
    IF u = "none" \/ ~loaded THEN NoTimer
    ELSE IF debounceTimer.armed THEN debounceTimer
    ELSE [armed |-> TRUE, chats |-> c, memories |-> m]
\* (a variant that does not wait for the sign-in load)
syncEffectUnguarded(u, loaded, c, m) ==
    IF u = "none" THEN NoTimer
    ELSE [armed |-> TRUE, chats |-> c, memories |-> m]
syncEffect(u, loaded, c, m) ==
    IF u = "none" \/ ~loaded THEN NoTimer
    ELSE [armed |-> TRUE, chats |-> c, memories |-> m]

\* init(): await db.initDB() resolves; the localStorage reads; then either
\* await api.fetchModels(savedProvider, ...) or straight on to db.getAllChats().
initDBResolves(savedProvider) ==
    /\ initPc = "initDB"
    /\ initPc' = IF savedProvider THEN "fetchModels" ELSE "getAllChats"
    /\ UNCHANGED <<chats, dbChats, memories, dbMemories, user, isCloudLoaded, cloudPc,
                   cloudData, remote, debounceTimer, pushes, toasts, created, saving>>

\* await api.fetchModels(...) resolves or rejects (caught); init goes on.
fetchModelsSettles ==
    /\ initPc = "fetchModels"
    /\ initPc' = "getAllChats"
    /\ UNCHANGED <<chats, dbChats, memories, dbMemories, user, isCloudLoaded, cloudPc,
                   cloudData, remote, debounceTimer, pushes, toasts, created, saving>>

\* const chats = await db.getAllChats(); setState(prev => ({ ...prev, chats }))
getAllChatsResolves ==
    /\ initPc = "getAllChats"
    /\ chats' = getAllChats(dbChats)
    /\ debounceTimer' = syncEffect(user, isCloudLoaded, chats', memories)
    /\ initPc' = "getAllMemories"
    /\ UNCHANGED <<dbChats, memories, dbMemories, user, isCloudLoaded, cloudPc,
                   cloudData, remote, pushes, toasts, created, saving>>

\* const memories = await db.getAllMemories(); setState(prev => ({ ...prev, memories }))
getAllMemoriesResolves ==
    /\ initPc = "getAllMemories"
    /\ memories' = getAllMemories(dbMemories)
    /\ debounceTimer' = syncEffect(user, isCloudLoaded, chats, memories')
    /\ initPc' = "done"
    /\ UNCHANGED <<chats, dbChats, dbMemories, user, isCloudLoaded, cloudPc,
                   cloudData, remote, pushes, toasts, created, saving>>

\* One of init's local-store awaits rejects: init() rejects and nothing catches it.
initRejects ==
    /\ initPc \in {"initDB", "getAllChats", "getAllMemories"}
    /\ initPc' = "rejected"
    /\ UNCHANGED <<chats, dbChats, memories, dbMemories, user, isCloudLoaded, cloudPc,
                   cloudData, remote, debounceTimer, pushes, toasts, created, saving>>

\* useAuth() delivers a user; the load effect runs:
\*   if (!user || isCloudLoaded) return; ... loadFromCloud()
signIn ==
    /\ user = "none"
    /\ user' = "uid"
    /\ cloudPc' = IF isCloudLoaded THEN cloudPc ELSE "loading"
    /\ UNCHANGED <<chats, dbChats, memories, dbMemories, isCloudLoaded, initPc,
                   cloudData, remote, debounceTimer, pushes, toasts, created, saving>>

\* const cloudData = await firestoreService.loadUserData(user.uid) returns;
\* if (cloudData) { ... if (cloudData.chats) setState(chats); if (cloudData.memories)
\* setState(memories) }; setIsCloudLoaded(true); the sync effect runs.
loadFromCloud(throws) ==
    /\ cloudPc = "loading"
    /\ cloudData' = loadUserData(remote, throws)
    /\ chats' = IF ~cloudData'.null /\ Truthy(cloudData'.chats)
                THEN cloudData'.chats.list ELSE chats
    /\ memories' = IF ~cloudData'.null /\ Truthy(cloudData'.memories)
                   THEN cloudData'.memories.list ELSE memories
    /\ isCloudLoaded' = TRUE
    /\ debounceTimer' = syncEffect(user, isCloudLoaded', chats', memories')
    /\ cloudPc' = "done"
    /\ UNCHANGED <<dbChats, dbMemories, user, initPc, remote, pushes, toasts, created, saving>>

\* (a variant that reports a failed write to the user)
timerFiresSurfaced(ok) ==
    /\ debounceTimer.armed
    /\ pushes' = Append(pushes, [chats |-> debounceTimer.chats,
                                 memories |-> debounceTimer.memories, ok |-> ok])
    /\ remote' = IF ok THEN saveUserData(remote, debounceTimer) ELSE remote
    /\ debounceTimer' = NoTimer
    /\ toasts' = IF ok THEN toasts ELSE toasts (+) SetToBag({Toast("Sync failed", "error")})
    /\ UNCHANGED <<chats, dbChats, memories, dbMemories, user, isCloudLoaded, initPc,
                   cloudPc, cloudData, created, saving>>

\* The debounce timer fires: firestoreService.saveUserData(user.uid, { preferences,
\* chats: state.chats, memories: state.memories }); the write succeeds or throws.
timerFires(ok) ==
    /\ debounceTimer.armed
    /\ pushes' = Append(pushes, [chats |-> debounceTimer.chats,
                                 memories |-> debounceTimer.memories, ok |-> ok])
    /\ remote' = IF ok THEN saveUserData(remote, debounceTimer) ELSE remote
    /\ debounceTimer' = NoTimer
    /\ UNCHANGED <<chats, dbChats, memories, dbMemories, user, isCloudLoaded, initPc,
                   cloudPc, cloudData, toasts, created, saving>>

\* The ids db.generateId() gives the chats that createChat makes, in order.
NewChatIds == <<"D", "E", "F">>

\* title: 'New Chat'
NewChatTitle == <<"N", "e", "w", " ", "C", "h", "a", "t">>

\* createChat, up to its await.  A provider and a model are selected.
\*   const chat = { id: db.generateId(), ... }; await db.saveChat(chat)
createChat ==
    /\ created < MaxCreated
    /\ created' = created + 1
    /\ saving' = saving \cup {NewChatIds[created + 1]}
    /\ UNCHANGED <<chats, currentChatId, messages, dbChats, memories, dbMemories, user,
                   isCloudLoaded, initPc, cloudPc, cloudData, remote, debounceTimer,
                   pushes, toasts, titles>>

\* await db.saveChat(chat) resolves; setState(chats: [chat, ...prev.chats],
\* currentChatId: chat.id, messages: []); the sync effect runs.
createChatSaved(c) ==
    /\ c \in saving
    /\ saving' = saving \ {c}
    /\ dbChats' = dbChats \cup {c}
    /\ titles' = (c :> NewChatTitle) @@ titles
    /\ chats' = <<c>> \o chats
    /\ currentChatId' = c
    /\ messages' = <<>>
    /\ debounceTimer' = syncEffect(user, isCloudLoaded, chats', memories)
    /\ UNCHANGED <<memories, dbMemories, user, isCloudLoaded, initPc, cloudPc, cloudData,
                   remote, pushes, toasts, created>>

\* await db.saveChat(chat) rejects: createChat rejects, nothing catches it.
createChatFails(c) ==
    /\ c \in saving
    /\ saving' = saving \ {c}
    /\ UNCHANGED <<chats, currentChatId, messages, dbChats, memories, dbMemories, user,
                   isCloudLoaded, initPc, cloudPc, cloudData, remote, debounceTimer,
                   pushes, toasts, created, titles>>

\* ------------------------------------------------------------------ preferences
\* A JavaScript value that may be missing: undefined, null, or a value.  The
\* field v of a missing value is a filler of the value's type.
Undefined(filler) == [kind |-> "undefined", v |-> filler]
NullOf(filler) == [kind |-> "null", v |-> filler]
Value(x) == [kind |-> "value", v |-> x]

\* a || b for strings: '' is falsy like undefined and null.
LogicalOrString(a, b) == IF a.kind = "value" /\ a.v # "" THEN a ELSE b
\* a || b for objects: every object is truthy, the empty one too.
LogicalOrObject(a, b) == IF a.kind = "value" THEN a ELSE b
\* a || b for booleans: false is falsy.
LogicalOrBoolean(a, b) == IF a.kind = "value" /\ a.v THEN a ELSE b
\* a ?? b: only undefined and null give way.
NullishCoalesce(a, b) == IF a.kind = "value" THEN a ELSE b

\* if (x) for a string and for an object.
TruthyString(a) == a.kind = "value" /\ a.v # ""
TruthyObject(a) == a.kind = "value"

\* The initial AppState: apiKeys {}, promptMode 'standard', memoryEnabled true,
\* no provider, no model.  apiKeys is the set of saved keys.
DefaultPrefs ==
    [apiKeys |-> Value({}), promptMode |-> Value("standard"), memoryEnabled |-> Value(TRUE),
     currentProviderId |-> NullOf(""), currentModelId |-> NullOf("")]

EmptyStorage ==
    [nexus_api_keys |-> Undefined({}), nexus_prompt_mode |-> Undefined(""),
     nexus_current_provider |-> Undefined(""), nexus_current_model |-> Undefined("")]

\* cloudData.preferences is missing from the document.
NoPreferences ==
    [present |-> FALSE, apiKeys |-> Undefined({}), promptMode |-> Undefined(""),
     memoryEnabled |-> Undefined(FALSE), currentProviderId |-> Undefined(""),
     currentModelId |-> Undefined("")]

\* loadFromCloud, if (cloudData.preferences) { ... }: the functional update of the
\* five preference fields, then the four localStorage.setItem.
mergePreferences(prev, p) ==
    [apiKeys           |-> LogicalOrObject(p.apiKeys, prev.apiKeys),
     promptMode        |-> LogicalOrString(p.promptMode, prev.promptMode),
     memoryEnabled     |-> NullishCoalesce(p.memoryEnabled, prev.memoryEnabled),
     currentProviderId |-> LogicalOrString(p.currentProviderId, prev.currentProviderId),
     currentModelId    |-> LogicalOrString(p.currentModelId, prev.currentModelId)]

storePreferences(ls, p) ==
    [nexus_api_keys         |-> IF TruthyObject(p.apiKeys) THEN p.apiKeys
                                ELSE ls.nexus_api_keys,
     nexus_prompt_mode      |-> IF TruthyString(p.promptMode) THEN p.promptMode
                                ELSE ls.nexus_prompt_mode,
     nexus_current_provider |-> IF TruthyString(p.currentProviderId) THEN p.currentProviderId
                                ELSE ls.nexus_current_provider,
     nexus_current_model    |-> IF TruthyString(p.currentModelId) THEN p.currentModelId
                                ELSE ls.nexus_current_model]

applyCloudPreferences ==
    /\ prefPc = "loaded"
    /\ prefs' = IF cloudPrefs.present THEN mergePreferences(prefs, cloudPrefs) ELSE prefs
    /\ localStorage' = IF cloudPrefs.present THEN storePreferences(localStorage, cloudPrefs)
                       ELSE localStorage
    /\ prefPc' = "applied"
    /\ UNCHANGED cloudPrefs

\* ------------------------------------------------------------------ selectChat
\* A call of selectChat that is not running.
IdleSelect == [pc |-> "idle", chatId |-> NoChat]

\* selectChat(chatId) for a chat of the sidebar, up to its await.
\*   const messages = await db.getMessagesByChat(chatId)
selectChat(c) ==
    /\ sel.pc = "idle"
    /\ c \in Range(chats)
    /\ sel' = [pc |-> "reading", chatId |-> c]
    /\ UNCHANGED <<currentChatId, messages>>

\* The read resolves with the chat's messages (those of a turn are created at
\* different times, so they come in the order written);
\* setState(currentChatId: chatId, messages).
selectChatResolves ==
    /\ sel.pc = "reading"
    /\ currentChatId' = sel.chatId
    /\ messages' = SelectSeq(dbMessages, LAMBDA m : m.chatId = sel.chatId)
    /\ sel' = IdleSelect

\* ================================================================== db.ts
\* A message as the store holds it: the key path is id, the index is chatId.
\* generateId() is `${Date.now()}-${random}`: ids compare as strings, that is by
\* the clock reading and then by the random suffix.
DbMessage(at, rand, c) == [id |-> <<at, rand>>, chatId |-> c, createdAt |-> at]

IdBefore(a, b) == a[1] < b[1] \/ (a[1] = b[1] /\ a[2] < b[2])

\* store.put(message): replaces the record with the same key, adds it otherwise.
Put(store, m) ==
    IF \E i \in 1..Len(store) : store[i].id = m.id
    THEN [i \in 1..Len(store) |-> IF store[i].id = m.id THEN m ELSE store[i]]
    ELSE Append(store, m)

\* index.getAll(chatId): the records of that index key, in the order of their
\* primary keys.
RECURSIVE InKeyOrder(_)
InKeyOrder(S) ==
    IF S = {} THEN <<>>
    ELSE LET first == CHOOSE m \in S : \A o \in S \ {m} : IdBefore(m.id, o.id)
         IN <<first>> \o InKeyOrder(S \ {first})

IndexGetAll(store, c) == InKeyOrder({m \in Range(store) : m.chatId = c})

\* Array.prototype.sort with (a, b) => a.createdAt - b.createdAt: stable.
RECURSIVE SortByCreatedAt(_)
SortByCreatedAt(s) ==
    IF s = <<>> THEN <<>>
    ELSE LET sorted == SortByCreatedAt(Front(s))
             x == Last(s)
             k == Cardinality({i \in 1..Len(sorted) : sorted[i].createdAt <= x.createdAt})
         IN SubSeq(sorted, 1, k) \o <<x>> \o SubSeq(sorted, k + 1, Len(sorted))

getMessagesByChat(store, c) == SortByCreatedAt(IndexGetAll(store, c))

saveChat(c) ==
    /\ c \notin dbChats
    /\ dbChats' = dbChats \cup {c}
    /\ reads' = <<>>
    /\ UNCHANGED dbMessages

\* saveMessage of a new message of a chat that was saved: the id is fresh and the
\* clock has not gone back since the message saved before it.
saveMessage(m) ==
    /\ Len(dbMessages) < MaxSaved
    /\ m.chatId \in dbChats
    /\ \A o \in Range(dbMessages) : o.id # m.id
    /\ dbMessages # <<>> => Last(dbMessages).createdAt <= m.createdAt
    /\ dbMessages' = Put(dbMessages, m)
    /\ reads' = <<>>
    /\ UNCHANGED dbChats

readMessages(c) ==
    /\ Len(reads) < MaxReads
    /\ c \in dbChats
    /\ reads' = Append(reads, [chatId |-> c, result |-> getMessagesByChat(dbMessages, c)])
    /\ UNCHANGED <<dbChats, dbMessages>>

\* ---- the sync effect on the clock ----
\* setTimeout(..., 2000): the delay, in seconds.
DebounceDelay == 2

\* The sync effect run at time t: its cleanup has cleared the timer of the run
\* before, and it sets the one timer, due 2 s later, whose callback closes over
\* the five preference fields, state.chats and state.memories.
syncEffectAt(t, p, c, m) ==
    IF user = "none" \/ ~isCloudLoaded THEN NoTimer
    ELSE [armed |-> TRUE, due |-> t + DebounceDelay, preferences |-> p,
          chats |-> c, memories |-> m]

PromptModes == {"standard", "compact"}

\* setPromptMode: localStorage.setItem('nexus_prompt_mode', mode); setState.
\* state.promptMode is a dependency of the sync effect, which runs again when
\* the value has changed.
setPromptMode(mode) ==
    /\ localStorage' = [localStorage EXCEPT !.nexus_prompt_mode = Value(mode)]
    /\ prefs' = [prefs EXCEPT !.promptMode = Value(mode)]
    /\ debounceTimer' = IF prefs' # prefs
                         THEN syncEffectAt(now, prefs', chats, memories)
                         ELSE debounceTimer
    /\ UNCHANGED <<memories, dbMemories, remote, pushes, toasts, now>>

\* The ids of the memories handed to addMemory.
AddedMemoryIds == {"P", "Q"}

\* addMemory, from the moment await db.saveMemory(memory) resolves:
\* setState(memories: [...prev.memories, memory]); showToast('Memory saved!').
\* state.memories is a dependency of the sync effect.
addMemory(m) ==
    /\ m \notin Range(memories)
    /\ dbMemories' = dbMemories \cup {m}
    /\ memories' = Append(memories, m)
    /\ toasts' = toasts (+) SetToBag({Toast("Memory saved!", "success")})
    /\ debounceTimer' = syncEffectAt(now, prefs, chats, memories')
    /\ UNCHANGED <<prefs, localStorage, remote, pushes, now>>

\* A second passes.  A timer that is due fires before the clock moves on.
tick ==
    /\ now < MaxTime
    /\ debounceTimer.armed => now < debounceTimer.due
    /\ now' = now + 1
    /\ UNCHANGED <<prefs, localStorage, memories, dbMemories, remote, pushes, toasts,
                   debounceTimer>>

\* The timer is due and its callback runs: one saveUserData call with the
\* preferences, chats and memories it closed over.
timerFiresAt(ok) ==
    /\ debounceTimer.armed
    /\ now = debounceTimer.due
    /\ pushes' = Append(pushes, [at |-> now, preferences |-> debounceTimer.preferences,
                                 chats |-> debounceTimer.chats,
                                 memories |-> debounceTimer.memories, ok |-> ok])
    /\ remote' = IF ok THEN saveUserData(remote, debounceTimer) ELSE remote
    /\ debounceTimer' = NoTimer
    /\ UNCHANGED <<prefs, localStorage, memories, dbMemories, toasts, now>>

\* ------------------------------------------------------------------ web search
\* related.slice(0, 5)
RelatedLimit == 5

\* A topic of data.RelatedTopics: { Text, FirstURL } or { Name, Topics: [...] }.
\* A missing field is undefined: '' for a string, no array for Topics.
Link(text) == [Text |-> text, FirstURL |-> <<"https://", text>>, isGroup |-> FALSE, Topics |-> <<>>]
TextOnly == [Text |-> "t", FirstURL |-> "", isGroup |-> FALSE, Topics |-> <<>>]
Group(topics) == [Text |-> "", FirstURL |-> "", isGroup |-> TRUE, Topics |-> topics]

\* if (topic.Text && topic.FirstURL)
IsLink(topic) == topic.Text # "" /\ topic.FirstURL # ""

\* { text: topic.Text, url: topic.FirstURL }
RelatedLink(topic) == [text |-> topic.Text, url |-> topic.FirstURL]

\* The forEach over data.RelatedTopics, with its inner forEach over
\* topic.Topics: what one topic pushes onto related.
Pushed(topic) ==
    IF IsLink(topic) THEN <<RelatedLink(topic)>>
    ELSE IF topic.isGroup
         THEN LET links == SelectSeq(topic.Topics, IsLink)
              IN [i \in 1..Len(links) |-> RelatedLink(links[i])]
         ELSE <<>>

\* const related, after the loops.  if (data.RelatedTopics && Array.isArray(...)).
Related(data) ==
    IF data.hasTopics
    THEN Flatten([i \in 1..Len(data.RelatedTopics) |-> Pushed(data.RelatedTopics[i])])
    ELSE <<>>

\* a || b for the strings of the body: '' and a missing field are falsy.
OrElse(a, b) == IF a # "" THEN a ELSE b

NoSummary == "The search query did not yield a direct summary."

\* The catch block's return value.
Unavailable ==
    [type |-> "web", title |-> "Search unavailable",
     summary |-> "The web search tool encountered a technical limitation (network/CORS).",
     source |-> "System", related |-> <<>>]

\* The body of the try block after await response.json(): title, summary,
\* source, related, the fallback of the summary, and the value returned.
Normalize(query, data) ==
    LET summary == OrElse(data.Answer, OrElse(data.Abstract, OrElse(data.AbstractText, "")))
        related == Related(data)
    IN [type |-> "web",
        title |-> OrElse(data.Heading, query),
        summary |-> IF summary # "" THEN summary
                    ELSE IF Len(related) > 0 THEN related[1].text ELSE NoSummary,
        source |-> OrElse(data.AbstractSource,
                          IF data.Answer # "" THEN "DuckDuckGo Answer" ELSE "DuckDuckGo"),
        related |-> SliceTo(related, RelatedLimit)]

NoData ==
    [isNull |-> TRUE, Heading |-> "", Answer |-> "", Abstract |-> "", AbstractText |-> "",
     AbstractSource |-> "", hasTopics |-> FALSE, RelatedTopics |-> <<>>]

IdleSearch ==
    [pc |-> "idle", query |-> "", failure |-> "none", data |-> NoData, result |-> Unavailable]

\* searchWeb(query), up to await fetch(url).
searchWeb(query) ==
    /\ search.pc = "idle"
    /\ search' = [IdleSearch EXCEPT !.pc = "fetching", !.query = query]

\* (a variant without the try / catch)
searchUncaught(why) == search' = [search EXCEPT !.pc = "threw", !.failure = why]

\* catch (error) { console.error(...); return { ... 'Search unavailable' ... } }
searchCaught(why) ==
    search' = [search EXCEPT !.pc = "returned", !.failure = why, !.result = Unavailable]

\* await fetch(url) rejects (no connection, CORS).
searchFetchRejects ==
    /\ search.pc = "fetching"
    /\ searchCaught("network")

\* await fetch(url) resolves.  if (!response.ok) throw new Error(...);
\* otherwise on to await response.json().
searchFetchResolves(ok) ==
    /\ search.pc = "fetching"
    /\ IF ok THEN search' = [search EXCEPT !.pc = "parsing"]
             ELSE searchCaught("non2xx")

\* await response.json() rejects: the body is not JSON.
searchJsonRejects ==
    /\ search.pc = "parsing"
    /\ searchCaught("unparsable")

\* await response.json() resolves with data.  Reading a property of null
\* throws a TypeError inside the try block.
searchJsonResolves(data) ==
    /\ search.pc = "parsing"
    /\ IF data.isNull THEN searchCaught("null body")
       ELSE search' = [search EXCEPT !.pc = "returned", !.data = data,
                                     !.result = Normalize(search.query, data)]

\* ------------------------------------------------------------------ the guards of sendMessage
\* !state.currentProviderId || !state.currentModelId: null and '' are falsy.
ProviderAndModelSelected ==
    /\ prefs.currentProviderId.kind = "value" /\ prefs.currentProviderId.v # ""
    /\ prefs.currentModelId.kind = "value" /\ prefs.currentModelId.v # ""

\* const apiKey = state.apiKeys[state.currentProviderId]: a key saved for the
\* provider, whichever side it came from.
ApiKeySaved ==
    \E origin \in {":local", ":cloud"} : (prefs.currentProviderId.v \o origin) \in prefs.apiKeys.v

\* (a variant that does not look for the key)
sendMessageKeyUnchecked(t, said) ==
    IF ~ProviderAndModelSelected
    THEN /\ turn[t].pc = "idle"
         /\ turn' = [turn EXCEPT ![t].pc = "returned"]
         /\ UNCHANGED <<appVars, dbVars>>
    ELSE sendMessage(t, said)

\* sendMessage from its first line:
\*   if (!state.currentProviderId || !state.currentModelId) return;
\*   if (!apiKey) { showToast('Please add an API key', 'error'); return; }
\* and then the call itself.
sendMessageFromTop(t, said) ==
    IF ~ProviderAndModelSelected
    THEN /\ turn[t].pc = "idle"
         /\ turn' = [turn EXCEPT ![t].pc = "returned"]
         /\ UNCHANGED <<appVars, dbVars>>
    ELSE IF ~ApiKeySaved
    THEN /\ turn[t].pc = "idle"
         /\ turn' = [turn EXCEPT ![t].pc = "returned"]
         /\ toasts' = toasts (+) SetToBag({Toast("Please add an API key", "error")})
         /\ UNCHANGED <<chats, currentChatId, messages, isStreaming, streamingContent, dbVars>>
    ELSE sendMessage(t, said)

\* ------------------------------------------------------------------ restart
\* type SystemPromptMode = 'standard' | 'compact' | 'developer' | 'coder'
SystemPromptModes == {"standard", "compact", "developer", "coder"}

\* init, "Load saved prompt mode":
\*   const savedPromptMode = localStorage.getItem('nexus_prompt_mode');
\*   if (savedPromptMode && ['standard', 'compact', 'developer'].includes(savedPromptMode))
\*       setState(prev => ({ ...prev, promptMode: savedPromptMode }));
loadSavedPromptMode(storage, current) ==
    IF /\ storage.nexus_prompt_mode.kind = "value"
       /\ storage.nexus_prompt_mode.v # ""
       /\ storage.nexus_prompt_mode.v \in {"standard", "compact", "developer"}
    THEN Value(storage.nexus_prompt_mode.v)
    ELSE current

\* init after await db.initDB(): the reads of localStorage, of which the one of
\* the prompt mode is followed here, and on to the model list or the chats.
initReadsStorage(savedProvider) ==
    /\ initDBResolves(savedProvider)
    /\ prefs' = [prefs EXCEPT !.promptMode = loadSavedPromptMode(localStorage, prefs.promptMode)]
    /\ UNCHANGED <<localStorage, cloudPrefs, prefPc>>

\* The page is loaded again: AppProvider mounts with initialState and calls
\* init(); localStorage and IndexedDB are what they were.
restart ==
    /\ prefs' = DefaultPrefs
    /\ chats' = <<>>
    /\ memories' = <<>>
    /\ initPc' = "initDB"
    /\ debounceTimer' = NoTimer
    /\ UNCHANGED <<localStorage, cloudPrefs, prefPc, dbChats, dbMemories, user, isCloudLoaded,
                   cloudPc, cloudData, remote, pushes, toasts, created, saving>>

\* ------------------------------------------------------------------ selectProvider
\* What the vendor lists for a provider, in the order its adapter returns.
ModelsOf(p) ==
    CASE p = "gemini" -> <<"gemini-flash", "gemini-pro">>
      [] p = "groq"   -> <<"llama-3">>
      [] OTHER        -> <<>>

\* state.apiKeys[providerId]
KeySavedFor(p) == \E origin \in {":local", ":cloud"} : (p \o origin) \in prefs.apiKeys.v

\* selectProvider(providerId), up to await api.fetchModels(providerId, apiKey):
\* localStorage.setItem('nexus_current_provider', providerId); setState(
\* currentProviderId, currentModelId: null, availableModels: [], isLoadingModels:
\* true); without a key, setState(isLoadingModels: false, modalOpen: 'apiKey').
selectProvider(p) ==
    /\ Len(sp) < MaxSelects
    /\ localStorage' = [localStorage EXCEPT !.nexus_current_provider = Value(p)]
    /\ prefs' = [prefs EXCEPT !.currentProviderId = Value(p), !.currentModelId = NullOf("")]
    /\ availableModels' = <<>>
    /\ isLoadingModels' = KeySavedFor(p)
    /\ sp' = Append(sp, [providerId |-> p, pending |-> KeySavedFor(p)])
    /\ UNCHANGED toasts

\* await api.fetchModels(...) resolves with models, for the i-th pending call:
\*   const firstModelId = models.length > 0 ? models[0].id : null;
\*   if (firstModelId) localStorage.setItem('nexus_current_model', firstModelId);
\*   setState(availableModels: models, isLoadingModels: false, currentModelId: firstModelId)
selectProviderResolves(i, models) ==
    /\ i \in 1..Len(sp)
    /\ sp[i].pending
    /\ fetchModels(sp[i].providerId) # "Unknown provider"
    /\ models \in {<<>>, ModelsOf(sp[i].providerId)}
    /\ localStorage' = IF models # <<>>
                       THEN [localStorage EXCEPT !.nexus_current_model = Value(models[1])]
                       ELSE localStorage
    /\ prefs' = [prefs EXCEPT !.currentModelId =
                    IF models # <<>> THEN Value(models[1]) ELSE NullOf("")]
    /\ availableModels' = models
    /\ isLoadingModels' = FALSE
    /\ sp' = [sp EXCEPT ![i].pending = FALSE]
    /\ UNCHANGED toasts

\* await api.fetchModels(...) rejects: showToast('Failed to load models',
\* 'error'); setState(availableModels: [], isLoadingModels: false).
selectProviderRejects(i) ==
    /\ i \in 1..Len(sp)
    /\ sp[i].pending
    /\ toasts' = toasts (+) SetToBag({Toast("Failed to load models", "error")})
    /\ availableModels' = <<>>
    /\ isLoadingModels' = FALSE
    /\ sp' = [sp EXCEPT ![i].pending = FALSE]
    /\ UNCHANGED <<prefs, localStorage>>

\* ------------------------------------------------------------------ toggleMemoryItem
\* A memory of the list: { id, title, enabled, ... }.
MemoryItem(id, enabled) == [id |-> id, title |-> <<"note", id>>, enabled |-> enabled]

\* store.put(memory) on the object store 'memories' (keyPath 'id').
PutMemory(store, memory) == {x \in store : x.id # memory.id} \cup {memory}

\* toggleMemoryItem(id), up to await db.saveMemory(updated):
\*   const memory = state.memories.find(m => m.id === id);
\*   if (memory) { const updated = { ...memory, enabled: !memory.enabled }; ...
\* state.memories is the list of the render the callback was made in.
toggleMemoryItem(id) ==
    /\ Len(tog.calls) < MaxToggles
    /\ \E i \in 1..Len(memories) :
          /\ memories[i].id = id
          /\ \A j \in 1..(i - 1) : memories[j].id # id
          /\ tog' = [pending |-> Append(tog.pending,
                                        [memories[i] EXCEPT !.enabled = ~memories[i].enabled]),
                     calls |-> Append(tog.calls, id)]
    /\ UNCHANGED <<memories, dbMemories>>

\* await db.saveMemory(updated) resolves for the i-th pending call:
\*   setState(memories: prev.memories.map(m => m.id === id ? updated : m))
toggleSaved(i) ==
    /\ i \in 1..Len(tog.pending)
    /\ LET updated == tog.pending[i] IN
         /\ dbMemories' = PutMemory(dbMemories, updated)
         /\ memories' = [j \in 1..Len(memories) |->
                            IF memories[j].id = updated.id THEN updated ELSE memories[j]]
    /\ tog' = [tog EXCEPT !.pending = SubSeq(tog.pending, 1, i - 1)
                                         \o SubSeq(tog.pending, i + 1, Len(tog.pending))]

\* ================================================================== specifications
SSEIdle ==
    /\ dialect = "gemini"
    /\ consumer = "sendMessage"
    /\ frames = <<>>
    /\ terminated = FALSE
    /\ pos = 0
    /\ buffer = <<>>
    /\ pending = <<>>
    /\ emitted = <<>>
    /\ acc = <<>>
    /\ dpc = "done"

TurnIdle ==
    /\ chats = <<>>
    /\ currentChatId = NoChat
    /\ messages = <<>>
    /\ isStreaming = FALSE
    /\ streamingContent = <<>>
    /\ toasts = EmptyBag
    /\ titles = <<>>
    /\ sel = IdleSelect
    /\ dbChats = {}
    /\ dbMessages = <<>>
    /\ reads = <<>>
    /\ turn = [t \in Turns |-> IdleTurn]
    /\ del = IdleDelete

SyncIdle ==
    /\ memories = <<>>
    /\ dbMemories = {}
    /\ user = "none"
    /\ isCloudLoaded = FALSE
    /\ initPc = "done"
    /\ cloudPc = "idle"
    /\ cloudData = Null
    /\ remote = NoDoc
    /\ debounceTimer = NoTimer
    /\ pushes = <<>>
    /\ created = 0
    /\ saving = {}

MemoryIdle ==
    /\ userText = <<>>
    /\ capture = [Pending EXCEPT !.pc = "done"]

IdleToggle == [pending |-> <<>>, calls |-> <<>>]

ServiceIdle ==
    /\ dispatched = <<>>
    /\ search = IdleSearch
    /\ now = 0
    /\ availableModels = <<>>
    /\ isLoadingModels = FALSE
    /\ sp = <<>>
    /\ tog = IdleToggle

PrefIdle ==
    /\ prefs = DefaultPrefs
    /\ localStorage = EmptyStorage
    /\ cloudPrefs = NoPreferences
    /\ prefPc = "applied"

InitSSE ==
    /\ dialect \in Dialects
    /\ consumer \in Consumers
    /\ frames \in SeqsUpTo(LineKinds, MaxLines)
    /\ terminated \in BOOLEAN
    /\ pos = 0
    /\ buffer = <<>>
    /\ pending = <<>>
    /\ emitted = <<>>
    /\ acc = <<>>
    /\ dpc = "reading"
    /\ TurnIdle
    /\ SyncIdle
    /\ PrefIdle
    /\ MemoryIdle
    /\ ServiceIdle

Read == (\E n \in 1..(MaxLines * 5) : ReadChunk(n)) /\ UNCHANGED outsideSSE
ReaderDone == ReadDone /\ UNCHANGED outsideSSE
ConsumeChunk == Consume /\ UNCHANGED outsideSSE

NextSSE == Read \/ ReaderDone \/ ConsumeChunk

SpecSSE == InitSSE /\ [][NextSSE]_vars

\* The same decoders on lines with and without the field name, the field
\* name being followed by a space or not.
PrefixKinds == {"text_a", "text_nospace", "done_sentinel", "no_prefix"}

InitPrefix ==
    /\ dialect \in Dialects
    /\ consumer \in Consumers
    /\ frames \in SeqsUpTo(PrefixKinds, MaxLines)
    /\ terminated \in BOOLEAN
    /\ pos = 0
    /\ buffer = <<>>
    /\ pending = <<>>
    /\ emitted = <<>>
    /\ acc = <<>>
    /\ dpc = "reading"
    /\ TurnIdle
    /\ SyncIdle
    /\ PrefIdle
    /\ MemoryIdle
    /\ ServiceIdle

SpecSSEPrefix == InitPrefix /\ [][NextSSE]_vars

Init == SSEIdle /\ TurnIdle /\ SyncIdle /\ PrefIdle /\ MemoryIdle /\ ServiceIdle

\* Texts that match no memory trigger.
PlainTexts == {<<"the", "sky", "is", "blue">>}

HandleSend == (\E t \in Turns, said \in PlainTexts : handleSend(t, said)) /\ UNCHANGED outsideTurn
SelectionAction == (\E t \in Turns, said \in PlainTexts : selectionAction(t, said)) /\ UNCHANGED outsideTurn
SaveChatResolves == (\E t \in Turns : saveChatResolves(t)) /\ UNCHANGED outsideSaveChat
SaveChatRejects == (\E t \in Turns : saveChatRejects(t)) /\ UNCHANGED outsideTurn
SaveUserResolves == (\E t \in Turns : saveUserResolves(t)) /\ UNCHANGED outsideTurn
SaveUserRejects == (\E t \in Turns : saveUserRejects(t)) /\ UNCHANGED outsideTurn
Response == (\E t \in Turns, p \in ProviderIds, resOk \in BOOLEAN : response(t, p, resOk)) /\ UNCHANGED outsideTurn
UnknownProvider == (\E t \in Turns, p \in ProviderIds : unknownProvider(t, p)) /\ UNCHANGED outsideTurn
FetchRejects == (\E t \in Turns : fetchRejects(t)) /\ UNCHANGED outsideTurn
TokenArrives == (\E t \in Turns, late \in BOOLEAN : token(t, late)) /\ UNCHANGED outsideTurn
StreamEnds == (\E t \in Turns : streamEnds(t)) /\ UNCHANGED outsideTurn
StreamError == (\E t \in Turns : streamError(t)) /\ UNCHANGED outsideTurn
SaveAssistantResolves == (\E t \in Turns : saveAssistantResolves(t)) /\ UNCHANGED outsideTurn
SaveAssistantRejects == (\E t \in Turns : saveAssistantRejects(t)) /\ UNCHANGED outsideTurn

Next ==
    \/ HandleSend \/ SelectionAction
    \/ SaveChatResolves \/ SaveChatRejects
    \/ SaveUserResolves \/ SaveUserRejects
    \/ Response \/ UnknownProvider \/ FetchRejects
    \/ TokenArrives \/ StreamEnds \/ StreamError
    \/ SaveAssistantResolves \/ SaveAssistantRejects

Spec == Init /\ [][Next]_vars

\* One call of sendMessage, and the other things the user can do meanwhile.
Said ==
    PlainTexts \cup {<<"remember", "that", "the", "sky", "is", "blue">>, <<"my", "name", "is", "Ada">>}

SendOnce == (\E said \in Said : handleSend(1, said)) /\ UNCHANGED outsideTurn
SaveMemoryResolves == (\E t \in Turns : saveMemoryResolves(t)) /\ UNCHANGED outsideCapture
SaveMemoryRejects == (\E t \in Turns : saveMemoryRejects(t)) /\ UNCHANGED outsideCapture
DeleteChat == (\E c \in Range(chats) : deleteChat(c)) /\ UNCHANGED outsideDelete
ChatRowDeleted == chatRowDeleted /\ UNCHANGED outsideDelete
MessagesRead == messagesRead /\ UNCHANGED outsideDelete
MessageDeleted == (\E m \in del.msgs : messageDeleted(m)) /\ UNCHANGED outsideDelete
DeleteChatDone == deleteChatDone /\ UNCHANGED outsideDelete
DeleteChatRejects == deleteChatRejects /\ UNCHANGED outsideDelete

NextTurn ==
    \/ SendOnce
    \/ SaveChatResolves \/ SaveChatRejects
    \/ SaveUserResolves \/ SaveUserRejects
    \/ SaveMemoryResolves \/ SaveMemoryRejects
    \/ Response \/ UnknownProvider \/ FetchRejects
    \/ TokenArrives \/ StreamEnds \/ StreamError
    \/ SaveAssistantResolves \/ SaveAssistantRejects
    \/ DeleteChat \/ ChatRowDeleted \/ MessagesRead \/ MessageDeleted
    \/ DeleteChatDone \/ DeleteChatRejects

SpecTurn == Init /\ [][NextTurn]_vars

\* The steps that the vendor and the local store take for a call that is under
\* way: the answer to the request, the chunks and the end of the stream, the
\* results of the writes.
TurnProgress ==
    \/ SaveChatResolves \/ SaveChatRejects
    \/ SaveUserResolves \/ SaveUserRejects
    \/ SaveMemoryResolves \/ SaveMemoryRejects
    \/ Response \/ UnknownProvider \/ FetchRejects
    \/ StreamEnds \/ StreamError
    \/ SaveAssistantResolves \/ SaveAssistantRejects

\* ... all of which come about in the end.
SpecTurnLive == SpecTurn /\ WF_vars(TurnProgress)

\* What the local store and the remote document hold when the application mounts.
LocalChatStores == {{}, {"A"}, {"A", "C"}}
LocalMemoryStores == {{}, {"M"}}
RemoteDocs ==
    {NoDoc} \cup
    {[exists |-> TRUE, chats |-> c, memories |-> m] :
        c \in {Absent, Field(<<>>), Field(<<"B">>)},
        m \in {Absent, Field(<<>>), Field(<<"N">>)}}

\* AppProvider has mounted: state is its initial value, init() has called
\* db.initDB(), no user has been delivered yet.
InitSync ==
    /\ SSEIdle
    /\ chats = <<>>
    /\ currentChatId = NoChat
    /\ messages = <<>>
    /\ isStreaming = FALSE
    /\ streamingContent = <<>>
    /\ toasts = EmptyBag
    /\ dbChats \in LocalChatStores
    /\ titles = [c \in dbChats |-> NewChatTitle]
    /\ sel = IdleSelect
    /\ dbMessages = <<>>
    /\ reads = <<>>
    /\ turn = [t \in Turns |-> IdleTurn]
    /\ del = IdleDelete
    /\ memories = <<>>
    /\ dbMemories \in LocalMemoryStores
    /\ user = "none"
    /\ isCloudLoaded = FALSE
    /\ initPc = "initDB"
    /\ cloudPc = "idle"
    /\ cloudData = Null
    /\ remote \in RemoteDocs
    /\ debounceTimer = NoTimer
    /\ pushes = <<>>
    /\ created = 0
    /\ saving = {}
    /\ PrefIdle
    /\ MemoryIdle
    /\ ServiceIdle

InitDBResolves == (\E savedProvider \in BOOLEAN : initDBResolves(savedProvider)) /\ UNCHANGED outsideSync
FetchModelsSettles == fetchModelsSettles /\ UNCHANGED outsideSync
GetAllChatsResolves == getAllChatsResolves /\ UNCHANGED outsideSync
GetAllMemoriesResolves == getAllMemoriesResolves /\ UNCHANGED outsideSync
InitRejects == initRejects /\ UNCHANGED outsideSync
SignIn == signIn /\ UNCHANGED outsideSync
LoadFromCloud == (\E throws \in BOOLEAN : loadFromCloud(throws)) /\ UNCHANGED outsideSync
TimerFires == (\E ok \in BOOLEAN : timerFires(ok)) /\ UNCHANGED outsideSync
CreateChat == createChat /\ UNCHANGED outsideCreateChat
CreateChatSaved == (\E c \in ChatIds : createChatSaved(c)) /\ UNCHANGED outsideCreateChat
CreateChatFails == (\E c \in ChatIds : createChatFails(c)) /\ UNCHANGED outsideCreateChat

NextSync ==
    \/ InitDBResolves \/ FetchModelsSettles
    \/ GetAllChatsResolves \/ GetAllMemoriesResolves \/ InitRejects
    \/ SignIn \/ LoadFromCloud \/ TimerFires
    \/ CreateChat \/ CreateChatSaved \/ CreateChatFails

SpecSync == InitSync /\ [][NextSync]_vars

\* The preferences in state when the snapshot arrives, and those of the snapshot.
\* The document's preferences are what an earlier push wrote (all five fields,
\* provider and model possibly null) or a part of it; promptMode is never ''.
LocalPrefs ==
    [apiKeys : {Value({}), Value({"gemini:local"})},
     promptMode : {Value("standard"), Value("developer")},
     memoryEnabled : {Value(TRUE), Value(FALSE)},
     currentProviderId : {NullOf(""), Value("gemini")},
     currentModelId : {NullOf(""), Value("gemini-pro")}]

CloudPrefs ==
    {NoPreferences} \cup
    [present : {TRUE},
     apiKeys : {Undefined({}), Value({}), Value({"groq:cloud"})},
     promptMode : {Undefined(""), Value("compact")},
     memoryEnabled : {Undefined(FALSE), Value(TRUE), Value(FALSE)},
     currentProviderId : {Undefined(""), NullOf(""), Value("groq")},
     currentModelId : {Undefined(""), NullOf(""), Value("llama")}]

\* localStorage as the setters of AppProvider left it: each key holds what the
\* state holds, and is unset where the state still has its initial value.
MirrorOf(p) ==
    [nexus_api_keys         |-> IF p.apiKeys.v = {} THEN Undefined({}) ELSE p.apiKeys,
     nexus_prompt_mode      |-> p.promptMode,
     nexus_current_provider |-> IF p.currentProviderId.kind = "value"
                                THEN p.currentProviderId ELSE Undefined(""),
     nexus_current_model    |-> IF p.currentModelId.kind = "value"
                                THEN p.currentModelId ELSE Undefined("")]

InitPrefs ==
    /\ SSEIdle
    /\ TurnIdle
    /\ SyncIdle
    /\ prefs \in LocalPrefs
    /\ localStorage = MirrorOf(prefs)
    /\ cloudPrefs \in CloudPrefs
    /\ prefPc = "loaded"
    /\ MemoryIdle
    /\ ServiceIdle

ApplyCloudPreferences == applyCloudPreferences /\ UNCHANGED outsidePrefs

NextPrefs == ApplyCloudPreferences

SpecPrefs == InitPrefs /\ [][NextPrefs]_vars

\* The database layer alone: chats and messages are saved and read back.
SaveChat == (\E c \in Turns : saveChat(c)) /\ UNCHANGED outsideDB
SaveMessage ==
    (\E at \in 1..MaxClock, rand \in 1..MaxSaved, c \in Turns : saveMessage(DbMessage(at, rand, c)))
        /\ UNCHANGED outsideDB
ReadMessages == (\E c \in Turns : readMessages(c)) /\ UNCHANGED outsideDB

NextDB == SaveChat \/ SaveMessage \/ ReadMessages

SpecDB == Init /\ [][NextDB]_vars

\* The two functions of memory capture, applied to a text.
InitMemory ==
    /\ SSEIdle
    /\ TurnIdle
    /\ SyncIdle
    /\ PrefIdle
    /\ ServiceIdle
    /\ userText \in Texts
    /\ capture = Pending

ExtractMemory == extractMemory /\ UNCHANGED outsideMemory

NextMemory == ExtractMemory

SpecMemory == InitMemory /\ [][NextMemory]_vars

\* The sync effect on the clock: a user is signed in and the sign-in load is
\* over; preferences and memories are changed while time passes.
InitDebounce ==
    /\ SSEIdle
    /\ TurnIdle
    /\ memories = <<>>
    /\ dbMemories = {}
    /\ user = "uid"
    /\ isCloudLoaded = TRUE
    /\ initPc = "done"
    /\ cloudPc = "done"
    /\ cloudData = Null
    /\ remote = NoDoc
    /\ debounceTimer = NoTimer
    /\ pushes = <<>>
    /\ created = 0
    /\ saving = {}
    /\ PrefIdle
    /\ MemoryIdle
    /\ ServiceIdle

SetPromptMode == (\E mode \in PromptModes : setPromptMode(mode)) /\ UNCHANGED outsideDebounce
AddMemory == (\E m \in AddedMemoryIds : addMemory(m)) /\ UNCHANGED outsideDebounce
Tick == tick /\ UNCHANGED outsideDebounce
TimerFiresAt == (\E ok \in BOOLEAN : timerFiresAt(ok)) /\ UNCHANGED outsideDebounce

NextDebounce == SetPromptMode \/ AddMemory \/ Tick \/ TimerFiresAt

SpecDebounce == InitDebounce /\ [][NextDebounce]_vars

\* One call of searchWeb and the answers DuckDuckGo can give it.
Topics == {Link("a"), Link("b"), TextOnly, Group(<<Link("c"), TextOnly, Link("d"), Link("e")>>)}

Bodies ==
    {NoData} \cup
    [isNull : {FALSE}, Heading : {"", "H"}, Answer : {"", "42"}, Abstract : {"", "abs"},
     AbstractText : {""}, AbstractSource : {"", "Wikipedia"}, hasTopics : {TRUE},
     RelatedTopics : SeqsUpTo(Topics, MaxTopics)] \cup
    [isNull : {FALSE}, Heading : {"H"}, Answer : {""}, Abstract : {""},
     AbstractText : {"", "text"}, AbstractSource : {""}, hasTopics : {FALSE},
     RelatedTopics : {<<>>}]

SearchWeb == (\E query \in {"q"} : searchWeb(query)) /\ UNCHANGED outsideSearch
SearchFetchRejects == searchFetchRejects /\ UNCHANGED outsideSearch
SearchFetchResolves == (\E ok \in BOOLEAN : searchFetchResolves(ok)) /\ UNCHANGED outsideSearch
SearchJsonRejects == searchJsonRejects /\ UNCHANGED outsideSearch
SearchJsonResolves == (\E data \in Bodies : searchJsonResolves(data)) /\ UNCHANGED outsideSearch

NextSearch ==
    \/ SearchWeb \/ SearchFetchRejects \/ SearchFetchResolves
    \/ SearchJsonRejects \/ SearchJsonResolves

SpecSearch == Init /\ [][NextSearch]_vars

\* The two dispatchers of api.ts, called with ids of PROVIDERS and with ids
\* that are not in it.
CallFetchModels ==
    (\E p \in ProviderIds \cup UnlistedIds : callFetchModels(p)) /\ UNCHANGED outsideDispatch
CallStreamChat ==
    (\E p \in ProviderIds \cup UnlistedIds, resOk \in BOOLEAN, n \in 0..MaxTokens :
        callStreamChat(p, resOk, n)) /\ UNCHANGED outsideDispatch

NextDispatch == CallFetchModels \/ CallStreamChat

SpecDispatch == Init /\ [][NextDispatch]_vars

\* The conversations of the sidebar: one call of sendMessage, and createChat,
\* selectChat and deleteChat beside it.  The texts are spelled character by
\* character; none matches a memory trigger.
ShortText == <<"h", "i", "!">>
LongText == [i \in 1..(TitleLength + 1) |-> "x"]
ChatTexts == {ShortText, LongText}

SendChat == (\E said \in ChatTexts : handleSend(1, said)) /\ UNCHANGED outsideTurn
SelectChat == (\E c \in Range(chats) : selectChat(c)) /\ UNCHANGED outsideSelect
SelectChatResolves == selectChatResolves /\ UNCHANGED outsideSelect

NextChats ==
    \/ SendChat
    \/ SaveChatResolves \/ SaveChatRejects
    \/ SaveUserResolves \/ SaveUserRejects
    \/ Response \/ UnknownProvider \/ FetchRejects
    \/ TokenArrives \/ StreamEnds \/ StreamError
    \/ SaveAssistantResolves \/ SaveAssistantRejects
    \/ CreateChat \/ CreateChatSaved \/ CreateChatFails
    \/ SelectChat \/ SelectChatResolves
    \/ DeleteChat \/ ChatRowDeleted \/ MessagesRead \/ MessageDeleted
    \/ DeleteChatDone \/ DeleteChatRejects

SpecChats == Init /\ [][NextChats]_vars

\* Calls of sendMessage one after the other, and selectChat and deleteChat
\* between and beside them.
NextHistory ==
    \/ HandleSend
    \/ SaveChatResolves \/ SaveChatRejects
    \/ SaveUserResolves \/ SaveUserRejects
    \/ Response \/ UnknownProvider \/ FetchRejects
    \/ TokenArrives \/ StreamEnds \/ StreamError
    \/ SaveAssistantResolves \/ SaveAssistantRejects
    \/ SelectChat \/ SelectChatResolves
    \/ DeleteChat \/ ChatRowDeleted \/ MessagesRead \/ MessageDeleted
    \/ DeleteChatDone \/ DeleteChatRejects

SpecHistory == Init /\ [][NextHistory]_vars

\* sendMessage from its guards on, with and without a provider, a model and a key.
GuardPrefs ==
    {[DefaultPrefs EXCEPT !.currentProviderId = p, !.currentModelId = m, !.apiKeys = k] :
        p \in {NullOf(""), Value("gemini")},
        m \in {NullOf(""), Value("gemini-pro")},
        k \in {Value({}), Value({"gemini:local"}), Value({"groq:cloud"})}}

InitGuard ==
    /\ SSEIdle
    /\ TurnIdle
    /\ SyncIdle
    /\ prefs \in GuardPrefs
    /\ localStorage = EmptyStorage
    /\ cloudPrefs = NoPreferences
    /\ prefPc = "applied"
    /\ MemoryIdle
    /\ ServiceIdle

SendFromTop ==
    (\E t \in Turns, said \in Said : sendMessageFromTop(t, said)) /\ UNCHANGED outsideTurn

NextGuard ==
    \/ SendFromTop
    \/ SaveChatResolves \/ SaveChatRejects
    \/ SaveUserResolves \/ SaveUserRejects
    \/ SaveMemoryResolves \/ SaveMemoryRejects
    \/ Response \/ UnknownProvider \/ FetchRejects
    \/ TokenArrives \/ StreamEnds \/ StreamError
    \/ SaveAssistantResolves \/ SaveAssistantRejects

SpecGuard == InitGuard /\ [][NextGuard]_vars

\* The prompt mode across restarts: no user signs in.
InitRestart == InitSync /\ remote = NoDoc

SetAnyPromptMode ==
    (\E mode \in SystemPromptModes : setPromptMode(mode)) /\ UNCHANGED outsideDebounce
Restart == restart /\ UNCHANGED outsideRestart
InitReadsStorage ==
    (\E savedProvider \in BOOLEAN : initReadsStorage(savedProvider)) /\ UNCHANGED outsideRestart

NextRestart ==
    \/ SetAnyPromptMode \/ Restart \/ InitReadsStorage
    \/ FetchModelsSettles \/ GetAllChatsResolves \/ GetAllMemoriesResolves

SpecRestart == InitRestart /\ [][NextRestart]_vars

\* The model picker: keys are saved for gemini and groq and not for nvidia.
InitPicker ==
    /\ SSEIdle
    /\ TurnIdle
    /\ SyncIdle
    /\ prefs = [DefaultPrefs EXCEPT !.apiKeys = Value({"gemini:local", "groq:cloud"})]
    /\ localStorage = EmptyStorage
    /\ cloudPrefs = NoPreferences
    /\ prefPc = "applied"
    /\ MemoryIdle
    /\ ServiceIdle

SelectProvider ==
    (\E p \in {"gemini", "groq", "nvidia"} : selectProvider(p)) /\ UNCHANGED outsidePicker
SelectProviderResolves ==
    (\E i \in 1..MaxSelects, models \in {<<>>} \cup {ModelsOf(p) : p \in ProviderIds} :
        selectProviderResolves(i, models)) /\ UNCHANGED outsidePicker
SelectProviderRejects ==
    (\E i \in 1..MaxSelects : selectProviderRejects(i)) /\ UNCHANGED outsidePicker

NextPicker == SelectProvider \/ SelectProviderResolves \/ SelectProviderRejects

SpecPicker == InitPicker /\ [][NextPicker]_vars

\* The memory list: two memories, one enabled and one not; the local writes
\* succeed.
StoredMemories == <<MemoryItem("P", TRUE), MemoryItem("Q", FALSE)>>

InitToggle ==
    /\ SSEIdle
    /\ TurnIdle
    /\ memories = StoredMemories
    /\ dbMemories = Range(StoredMemories)
    /\ user = "none"
    /\ isCloudLoaded = FALSE
    /\ initPc = "done"
    /\ cloudPc = "idle"
    /\ cloudData = Null
    /\ remote = NoDoc
    /\ debounceTimer = NoTimer
    /\ pushes = <<>>
    /\ created = 0
    /\ saving = {}
    /\ PrefIdle
    /\ MemoryIdle
    /\ ServiceIdle

ToggleMemoryItem ==
    (\E id \in {"P", "Q"} : toggleMemoryItem(id)) /\ UNCHANGED outsideToggle
ToggleSaved == (\E i \in 1..MaxToggles : toggleSaved(i)) /\ UNCHANGED outsideToggle

NextToggle == ToggleMemoryItem \/ ToggleSaved

SpecToggle == InitToggle /\ [][NextToggle]_vars

\* ================================================================== claims: decoder
\* What the vendor's lines mean, read off the lines it sent (not off the bytes).
FrameChunks(k) ==
    CASE k = "text_a"      -> <<[content |-> <<"a">>, done |-> FALSE]>>
      [] k = "finish"      -> <<[content |-> <<>>, done |-> TRUE]>>
      [] k = "text_finish" -> <<[content |-> <<"b">>, done |-> FALSE],
                                [content |-> <<>>, done |-> TRUE]>>
      [] OTHER             -> <<>>

FramesChunks(fs) == Flatten([i \in 1..Len(fs) |-> FrameChunks(fs[i])])

\* The lines that the vendor ended with a newline.
CompleteFrames == IF terminated \/ frames = <<>> THEN frames ELSE Front(frames)

\* The chunks up to and including the first terminal one.
RECURSIVE UpToDone(_)
UpToDone(cs) ==
    IF cs = <<>> THEN <<>>
    ELSE IF Head(cs).done THEN <<Head(cs)>> ELSE <<Head(cs)>> \o UpToDone(Tail(cs))

RECURSIVE Contents(_)
Contents(cs) == IF cs = <<>> THEN <<>> ELSE Head(cs).content \o Contents(Tail(cs))

StripThrow(evs) == [i \in 1..Len(evs) |-> [content |-> evs[i].content, done |-> evs[i].done]]

\* The chunks a consumer receives when the bytes `body` arrive in one read.
OneChunkEmitted(body) ==
    LET all == StripThrow(ParseLines(dialect, Front(Split(body)))) IN
    IF BreaksOnDone(consumer) THEN UpToDone(all) ELSE all

Finished == dpc \in {"done", "returned"}

\* C3: chunk-boundary invariance.  However the reader cuts the body into
\* chunks (in the middle of a line too), the chunks the generator has yielded
\* once it waits for the next read are those it yields when the bytes read so
\* far arrive as one chunk, and once it has finished they are those of the
\* whole body arriving as one chunk; this for both dialects.
C3_ChunkBoundaryInvariance ==
    /\ pending = <<>> => emitted = OneChunkEmitted(SubSeq(Stream, 1, pos))
    /\ Finished => emitted = OneChunkEmitted(Stream)

\* C3 witness: after two different tokens were yielded, a read has ended in
\* the middle of the JSON document of the third line.
C3_Witness ==
    /\ dpc = "reading"
    /\ pending = <<>>
    /\ Len(buffer) = 3
    /\ pos < Len(Stream)
    /\ Len(emitted) >= 2
    /\ emitted[1].content = <<"a">>
    /\ emitted[2].content = <<"b">>

\* C4: malformed lines among valid ones.  The generator never raises, reads
\* the body to its end, and yields exactly the chunks of the valid lines the
\* vendor completed, in the order sent.
C4_MalformedSkipped ==
    /\ dpc # "threw"
    /\ dpc = "done" => pos = Len(Stream) /\ emitted = FramesChunks(CompleteFrames)
    /\ dpc = "returned" => emitted = UpToDone(FramesChunks(CompleteFrames))

\* C4 witness: a finished decode of valid, malformed, valid.
C4_Witness ==
    /\ dpc = "done"
    /\ terminated
    /\ frames = <<"text_a", "malformed", "text_finish">>
    /\ consumer = "enhancePrompt"
    /\ Contents(emitted) = <<"a", "b">>

\* C5: the content sendMessage commits is the text of every valid data line
\* the vendor sent up to the first terminal marker, the last line included
\* when the vendor did not end it with a newline.
C5_NoTokenDropped ==
    (consumer = "sendMessage" /\ Finished) => acc = Contents(UpToDone(FramesChunks(frames)))

\* ================================================================== claims: sendMessage

InFlight(t) ==
    turn[t].pc \in {"savingChat", "savingUser", "awaitingResponse", "streaming", "savingAssistant"}

\* No assistant message of call t in the store or in state.messages.
NoAssistant(t) ==
    \A m \in Range(dbMessages) \cup Range(messages) : ~(m.turn = t /\ m.role = "assistant")

\* C1: at most one turn is in flight per conversation: two calls of
\* sendMessage that have not finished never work on the same chat.
C1_OneTurnPerConversation ==
    \A t, u \in Turns :
        (t # u /\ InFlight(t) /\ InFlight(u) /\ turn[t].chatId # NoChat)
            => turn[t].chatId # turn[u].chatId

\* The step in which the request or the decoder of call t raises.
ProviderFails(t) ==
    /\ turn[t].pc \in {"awaitingResponse", "streaming"}
    /\ turn'[t].pc = "failed"

\* C2: when the provider request or the stream decoder raises, that step
\* writes no message to the store and appends none to state.messages, resets
\* streamingContent to empty and isStreaming to false; and a call that failed
\* so has no assistant message, in the store or in state.messages.
C2_ErrorDiscardsPartial ==
    [][\A t \in Turns :
          /\ ProviderFails(t) =>
                /\ isStreaming' = FALSE
                /\ streamingContent' = <<>>
                /\ messages' = messages
                /\ dbMessages' = dbMessages
          /\ (turn'[t].pc = "failed" /\ turn'[t].error # "store error") => NoAssistant(t)'
      ]_vars

\* C2 witness: the connection dropped after a token had been accumulated.
C2_Witness ==
    \E t \in Turns :
        /\ turn[t].pc = "failed"
        /\ turn[t].error = "network error"
        /\ turn[t].fullContent # <<>>
        /\ UserMsg(t, turn[t].chatId) \in Range(dbMessages)
        /\ NoAssistant(t)
        /\ ~isStreaming
        /\ streamingContent = <<>>

\* The step in which call t receives a token.
TokenStep(t) == Len(turn'[t].fullContent) > Len(turn[t].fullContent)

\* The step in which the loop of call t ends.
LoopExit(t) == turn[t].pc = "streaming" /\ turn'[t].pc = "savingAssistant"

C7_UserMessageDurable ==
    \A t \in Turns :
        turn[t].pc \in {"awaitingResponse", "streaming", "savingAssistant", "done", "failed"}
            => UserMsg(t, turn[t].chatId) \in Range(dbMessages)

\* C7 witness: a request is out and the user message is stored.
C7_Witness ==
    \E t \in Turns :
        /\ turn[t].pc = "awaitingResponse"
        /\ UserMsg(t, turn[t].chatId) \in Range(dbMessages)

APIErrors == {"Gemini API error", "Groq API error", "OpenRouter API error",
              "Hugging Face API error", "NVIDIA API error"}

\* C8: a call whose request was answered with a non-2xx status has failed
\* with the adapter's error, has received no chunk, and has no assistant
\* message.
C8_Non2xxFails ==
    \A t \in Turns :
        turn[t].status = "non2xx" =>
            /\ turn[t].pc = "failed"
            /\ turn[t].error \in APIErrors
            /\ turn[t].fullContent = <<>>
            /\ NoAssistant(t)

\* C8 witness: two calls answered with a non-2xx status, one through the
\* Gemini adapter and one through an OpenAI-compatible one.
C8_Witness ==
    /\ turn[1].status = "non2xx" /\ turn[1].error = "Gemini API error"
    /\ turn[2].status = "non2xx" /\ turn[2].error = "NVIDIA API error"
    /\ dbMessages = <<UserMsg(1, "T1"), UserMsg(2, "T1")>>

\* ================================================================== claims: cloud sync
\* The sign-in merge: loadFromCloud's continuation after the remote snapshot arrived.
MergeStep == cloudPc = "loading" /\ cloudPc' = "done"

\* The remote snapshot has no chats: no document, no chats field, or an empty list.
RemoteHasNoChats == ~remote.exists \/ ~remote.chats.has \/ remote.chats.list = <<>>

\* C9: the local store holds only Chat A and the remote snapshot that was loaded
\* holds only Chat B; once init and loadFromCloud have both finished, in whatever
\* order, the visible chat list is exactly {B}.
C9_RemoteWins ==
    (/\ dbChats = {"A"}
     /\ cloudPc = "done"
     /\ ~cloudData.null
     /\ cloudData.chats = Field(<<"B">>)
     /\ initPc = "done")
    => chats = <<"B">>

\* C10: when the visible chat list is {A} and the remote snapshot has no chats
\* (no document, no chats field, or an empty chats list), the merge leaves the
\* list equal to {A} and the push it schedules carries {A}.
C10_EmptyRemoteKeepsLocal ==
    [][(MergeStep /\ chats = <<"A">> /\ RemoteHasNoChats)
       => (/\ chats' = <<"A">>
           /\ debounceTimer'.armed
           /\ debounceTimer'.chats = <<"A">>)]_vars

\* ================================================================== claims: preferences
PrefFields == {"apiKeys", "promptMode", "memoryEnabled", "currentProviderId", "currentModelId"}

\* The snapshot has a value for field f.
RemoteHasValue(f) == cloudPrefs.present /\ cloudPrefs[f].kind = "value"

\* C11: in the sign-in merge, a preference field for which the snapshot has a
\* value (memoryEnabled = false included) takes that value; every other
\* preference field keeps its local value.
C11_RemotePreferencesWin ==
    [][prefPc' = "applied" /\ prefPc = "loaded" =>
         \A f \in PrefFields :
            prefs'[f] = IF RemoteHasValue(f) THEN cloudPrefs[f] ELSE prefs[f]]_vars

\* C11 witness: the merge has run on a snapshot that turns memory off and names
\* no provider, over a state that had memory on and a provider selected.
C11_Witness ==
    /\ prefPc = "applied"
    /\ cloudPrefs.present
    /\ cloudPrefs.memoryEnabled = Value(FALSE)
    /\ cloudPrefs.currentProviderId = NullOf("")
    /\ prefs.memoryEnabled = Value(FALSE)
    /\ prefs.currentProviderId = Value("gemini")
    /\ prefs.promptMode = Value("compact")

\* ================================================================== claims: debounced push
SignedInAndLoaded == user = "uid" /\ isCloudLoaded

\* A setState of chats or memories: by init, by createChat.
Mutation ==
    \/ chats' # chats
    \/ memories' # memories
    \/ (initPc' # initPc /\ initPc' \in {"getAllMemories", "done"})

\* A saveUserData call is issued.
PushStep == pushes' # pushes

\* C12: signed in and after the sign-in load, a mutation issues no write and
\* restarts the timer with the state it leaves; a write is issued only by the
\* timer, carries the state as of the last mutation and leaves no timer
\* pending; nothing else touches the timer.  So a burst of mutations, none
\* later than the timer of the one before, gives exactly one write, after the
\* last of them, with the state of the last.
C12_BurstCoalesced ==
    [][SignedInAndLoaded =>
          /\ Mutation =>
                /\ pushes' = pushes
                /\ debounceTimer' = [armed |-> TRUE, chats |-> chats', memories |-> memories']
          /\ PushStep =>
                /\ debounceTimer.armed
                /\ Front(pushes') = pushes
                /\ Last(pushes').chats = chats
                /\ Last(pushes').memories = memories
                /\ ~debounceTimer'.armed
          /\ (~Mutation /\ ~PushStep) => debounceTimer' = debounceTimer
      ]_vars

\* C12 witness: after the snapshot [B] was loaded, init put [A] and then [M]
\* into state and createChat added D, and there has been exactly one write,
\* carrying [D, A] and [M].
C12_Witness ==
    /\ ~cloudData.null
    /\ cloudData.chats = Field(<<"B">>)
    /\ pushes = <<[chats |-> <<"D", "A">>, memories |-> <<"M">>, ok |-> TRUE]>>
    /\ ~debounceTimer.armed
    /\ chats = <<"D", "A">>

\* The write just issued failed.
FailedPush == PushStep /\ ~Last(pushes').ok

\* C13: a failed push changes neither the state nor the local store nor the
\* remote document, shows no toast and disturbs no local operation in
\* progress; createChat can still be called after it; and the mutation that
\* follows a failed push restarts the timer with the whole state, which still
\* holds what the failed push carried when the mutation only adds a chat.
C13_FailedPushIsSilent ==
    /\ [][FailedPush =>
             /\ UNCHANGED <<chats, memories, dbChats, dbMemories, toasts, remote>>
             /\ UNCHANGED <<created, saving, initPc, currentChatId, messages>>]_vars
    /\ []((pushes # <<>> /\ ~Last(pushes).ok /\ created < MaxCreated) => ENABLED createChat)
    /\ [][(pushes # <<>> /\ ~Last(pushes).ok /\ SignedInAndLoaded /\ Mutation) =>
             /\ debounceTimer'.armed
             /\ debounceTimer'.chats = chats'
             /\ debounceTimer'.memories = memories'
             /\ (chats = Last(pushes).chats /\ saving' # saving)
                   => Range(Last(pushes).chats) \subseteq Range(debounceTimer'.chats)]_vars

\* C13 witness: the push of [A] failed, createChat added D, and the next push
\* wrote [D, A] to the remote document.
C13_Witness ==
    /\ Len(pushes) = 2
    /\ ~pushes[1].ok /\ pushes[1].chats = <<"A">>
    /\ pushes[2].ok /\ pushes[2].chats = <<"D", "A">>
    /\ remote.chats = Field(<<"D", "A">>)
    /\ toasts = EmptyBag

\* ================================================================== claims: deleteChat
\* Call t has settled: it has not been made, or has run to its end.
Settled(t) == turn[t].pc \in {"idle", "done", "failed", "aborted"}

\* C15: once deleteChat(id) has completed and every call of sendMessage has
\* settled, the local store holds no message whose chatId is id.
C15_DeleteCascades ==
    (del.pc = "done" /\ \A t \in Turns : Settled(t))
        => \A m \in Range(dbMessages) : m.chatId # del.chatId

\* ================================================================== claims: db round trip
\* The messages of a chat in the order they were saved.
SavedOrder(c) == SelectSeq(dbMessages, LAMBDA m : m.chatId = c)

\* C16: after a chat and a sequence of messages of it were saved,
\* getMessagesByChat returns those messages in the order they were saved, also
\* when two of them carry the same createdAt, and a second read returns the same.
C16_RoundTrip ==
    \A i \in 1..Len(reads) : reads[i].result = SavedOrder(reads[i].chatId)

\* ================================================================== claims: memory capture
MatchesName(s) == nameMatch(s) # <<>>
MatchesRememberThat(s) == \E i \in 1..Len(s) : WordFollows(s, i, <<{"remember"}, {"that"}>>)

\* C20: extractMemoryContent gives type fact with content "the sky is blue" for
\* "remember that the sky is blue"; the profile type, title "Name" and content
\* "Ada" for "my name is Ada"; and where a text matches a name pattern as well as
\* the remember-that pattern, it gives the result of the name pattern.
C20_Extraction ==
    capture.pc = "done" =>
        /\ userText = <<"remember", "that", "the", "sky", "is", "blue">> =>
              /\ capture.extracted.type = "fact"
              /\ capture.extracted.value = <<"the", "sky", "is", "blue">>
        /\ userText = <<"my", "name", "is", "Ada">> =>
              capture.extracted = [title |-> "Name", value |-> <<"Ada">>, type |-> "user_profile"]
        /\ (MatchesName(userText) /\ MatchesRememberThat(userText)) =>
              capture.extracted = [title |-> "Name", value |-> nameMatch(userText),
                                   type |-> "user_profile"]

C20_Witness ==
    /\ capture.pc = "done"
    /\ MatchesName(userText)
    /\ MatchesRememberThat(userText)
    /\ capture.extracted.title = "Name"

\* ================================================================== claims: capture in a turn
Captures(t) == turn[t].extracted # NullMemory
Requested(t) == turn[t].pc \in {"awaitingResponse", "streaming", "savingAssistant", "failed", "done"}

C18_CaptureFailureIsolated ==
    [][\A t \in Turns :
          (turn[t].pc = "savingMemory" /\ turn'[t].pc # "savingMemory")
              => turn'[t].pc = "awaitingResponse"]_vars

RECURSIVE Copies(_, _)
Copies(B, S) ==
    IF S = {} THEN 0
    ELSE LET x == CHOOSE y \in S : TRUE IN CopiesIn(x, B) + Copies(B, S \ {x})

ErrorToasts == Copies(toasts, {x \in BagToSet(toasts) : x.type = "error"})
FailedTurns == {t \in Turns : turn[t].pc \in {"failed", "aborted"}}

\* C19: there is exactly one error toast for every failed turn, whether the turn
\* failed on the request or the stream, on the write of the chat or of the user
\* message before streaming, or on the write of the assistant message.
C19_OneToastPerFailedTurn == ErrorToasts = Cardinality(FailedTurns)

\* ================================================================== claims: conversations
IsPrefix(p, s) == Len(p) <= Len(s) /\ SubSeq(s, 1, Len(p)) = p

\* The user message of call t has been sent.
UserSent(t) == \E m \in Range(dbMessages) : m.turn = t /\ m.role = "user"

\* C21: once the first user message of a conversation has been sent, the title
\* of the conversation is a prefix of at most 50 characters of that message,
\* whether sendMessage made the conversation or createChat did.
C21_TitleIsPrefix ==
    \A t \in Turns :
        UserSent(t) =>
            /\ IsPrefix(titles[turn[t].chatId], turn[t].content)
            /\ Len(titles[turn[t].chatId]) <= TitleLength

\* C30: every message of state.messages belongs to the current chat.
C30_MessagesOfCurrentChat ==
    \A m \in Range(messages) : m.chatId = currentChatId

\* ================================================================== claims: termination
Started(t) == turn[t].pc # "idle"

\* C22: every call of sendMessage that was started ends, and the application is
\* then out of the streaming state (isStreaming is false, which is what
\* handleSend asks for before it accepts a new message).
C22_LeavesStreaming ==
    \A t \in Turns : Started(t) ~> (Settled(t) /\ ~isStreaming)

C22_Witness ==
    \E t \in Turns : turn[t].pc = "failed" /\ turn[t].status = "2xx" /\ ~isStreaming

\* ================================================================== claims: order of commits
OfChat(list, c) == SelectSeq(list, LAMBDA m : m.chatId = c)

\* In the messages of one chat, a user message is followed by a message of its
\* own call, or by a message of another call only when its own call has failed.
Uninterleaved(list) ==
    \A c \in {m.chatId : m \in Range(list)} :
        LET s == OfChat(list, c) IN
        \A i \in 1..(Len(s) - 1) :
            (s[i].role = "user" /\ s[i + 1].turn # s[i].turn)
                => turn[s[i].turn].pc = "failed"

\* C23: within one conversation the commits of different turns never
\* interleave, in the store and in state.messages: the user message of a turn
\* is followed directly by the assistant message of that turn, or by nothing if
\* the turn failed, never by a message of a turn attempted at the same time.
C23_CommitsNeverInterleave == Uninterleaved(dbMessages) /\ Uninterleaved(messages)

\* ================================================================== claims: end of the decoding
TerminalEmitted == \E i \in 1..Len(emitted) : emitted[i].done

\* C24: once the generator has yielded the chunk with done = true it yields no
\* further chunk and reads no further bytes, whichever loop consumes it.
C24_EndsAtTerminalMarker ==
    [][TerminalEmitted => (emitted' = emitted /\ pos' = pos)]_vars

\* ================================================================== claims: the data prefix
\* The token of a line that starts with "data:" and carries a document with text.
PrefixedToken(k) == IF k \in {"text_a", "text_nospace"} THEN <<"a">> ELSE <<>>

PrefixedTokens(fs) == Flatten([i \in 1..Len(fs) |-> PrefixedToken(fs[i])])

\* C25: every complete line that starts with "data:", with a space after the
\* colon or without, and carries valid JSON with text yields its token; a line
\* whose payload is [DONE] yields no token and raises no error; a line without
\* the prefix yields nothing.
C25_PrefixedLinesYield ==
    /\ dpc # "threw"
    /\ dpc = "done" => Contents(emitted) = PrefixedTokens(CompleteFrames)


\* ------------------------------------------------------------------ C26
\* The adapter a provider id names: fetch<Name>Models and stream<Name>.
OwnAdapter(op, p) ==
    LET name == CASE p = "gemini"      -> "Gemini"
                  [] p = "groq"        -> "Groq"
                  [] p = "openrouter"  -> "OpenRouter"
                  [] p = "huggingface" -> "HuggingFace"
                  [] p = "nvidia"      -> "Nvidia"
                  [] p = "zai"         -> "Zai"
                  [] OTHER             -> "none"
    IN IF op = "fetchModels" THEN "fetch" \o name \o "Models" ELSE "stream" \o name

\* C26: every call of fetchModels or streamChat with an id listed in
\* PROVIDERS goes to that provider's own adapter; every call with another id
\* raises 'Unknown provider' and yields no token.
C26_DispatchTotal ==
    \A i \in 1..Len(dispatched) :
        LET d == dispatched[i] IN
        IF d.providerId \in ProviderIds
        THEN d.adapter = OwnAdapter(d.op, d.providerId)
        ELSE d.outcome = "Unknown provider" /\ d.tokens = 0

\* ------------------------------------------------------------------ C27
\* What the last saveUserData call carried (before the first: the state the
\* sign-in load left).
LastPushed ==
    IF pushes = <<>> THEN [preferences |-> DefaultPrefs, chats |-> <<>>, memories |-> <<>>]
    ELSE Last(pushes)

\* A push is pending that will carry preferences, or chats and memories, that
\* the last push did not carry.
PreferencePushPending ==
    debounceTimer.armed /\ debounceTimer.preferences # LastPushed.preferences
BulkPushPending ==
    /\ debounceTimer.armed
    /\ <<debounceTimer.chats, debounceTimer.memories>> # <<LastPushed.chats, LastPushed.memories>>

PreferenceMutation == prefs' # prefs
BulkMutation == chats' # chats \/ memories' # memories

\* C27: a mutation of chats or memories leaves a pending preference push due
\* when it was due, and a mutation of a preference leaves a pending push of
\* chats and memories due when it was due.
C27_IndependentDebounce ==
    [][/\ (PreferencePushPending /\ BulkMutation) =>
            (debounceTimer'.armed /\ debounceTimer'.due = debounceTimer.due)
       /\ (BulkPushPending /\ PreferenceMutation) =>
            (debounceTimer'.armed /\ debounceTimer'.due = debounceTimer.due)]_vars

\* ------------------------------------------------------------------ C28
\* C28: every chat, message and memory of the in-memory state is in the local
\* store.
C28_StateWithinLocalStore ==
    /\ Range(chats) \subseteq dbChats
    /\ Range(memories) \subseteq dbMemories
    /\ Range(messages) \subseteq Range(dbMessages)

\* ------------------------------------------------------------------ C29
\* C29: searchWeb never throws; when the fetch rejects, the status is not 2xx
\* or the body does not parse, it returns the result titled 'Search
\* unavailable' with source 'System' and no related link; and whatever it
\* returns has at most 5 related links.
C29_SearchNeverFails ==
    /\ search.pc # "threw"
    /\ search.pc = "returned" =>
         /\ search.failure \in {"network", "non2xx", "unparsable"} =>
               /\ search.result.title = "Search unavailable"
               /\ search.result.source = "System"
               /\ search.result.related = <<>>
         /\ Len(search.result.related) <= RelatedLimit

\* C29 witness: the body did not parse and searchWeb returned the fallback.
C29_Witness ==
    /\ search.pc = "returned"
    /\ search.failure = "unparsable"
    /\ search.result = Unavailable

\* ------------------------------------------------------------------ C31
\* Call t issues its request in this step.
Requests(t) == turn[t].pc # "awaitingResponse" /\ turn'[t].pc = "awaitingResponse"

\* The messages of call t's conversation that other calls have committed to
\* the store by the time the request is issued, in the order written.
CommittedBefore(t) ==
    SelectSeq(dbMessages', LAMBDA m : m.chatId = turn'[t].chatId /\ m.turn # t)

\* C31: the history a call sends to the provider is the committed messages of
\* its conversation, in order, followed by the new user message.
C31_HistoryOfOwnConversation ==
    [][\A t \in Turns : Requests(t) =>
          RequestMessages(t)' =
             Append(ToWire(CommittedBefore(t)),
                    [role |-> "user", content |-> turn'[t].content])]_vars

\* ------------------------------------------------------------------ C32
\* C32: while the sign-in load has not completed (isCloudLoaded is false), no
\* timer of the sync effect is pending and no saveUserData call has been made.
C32_NoPushBeforeLoad ==
    ~isCloudLoaded => (~debounceTimer.armed /\ pushes = <<>>)

\* C32 witness: the user is signed in, loadUserData has not answered yet, and
\* init and createChat have put chats into state meanwhile.
C32_Witness ==
    /\ user = "uid"
    /\ cloudPc = "loading"
    /\ ~isCloudLoaded
    /\ chats = <<"D", "A">>
    /\ ~debounceTimer.armed
    /\ pushes = <<>>

\* ------------------------------------------------------------------ C33
\* The sign-in load is over and gave null although the remote document is
\* there: loadUserData caught an error.  No push has been made since.
LoadFailed ==
    /\ cloudPc = "done"
    /\ cloudData.null
    /\ remote.exists
    /\ pushes = <<>>

\* What a field of the remote document holds.
Held(field) == IF field.has THEN Range(field.list) ELSE {}

\* C33: after a sign-in load that failed with an error, a push leaves in the
\* remote document the chats and the memories that were there before sign-in.
C33_FailedLoadKeepsRemote ==
    [][(LoadFailed /\ PushStep) =>
          /\ Held(remote.chats) \subseteq Held(remote'.chats)
          /\ Held(remote.memories) \subseteq Held(remote'.memories)]_vars

\* ------------------------------------------------------------------ C36
\* C36: whenever isStreaming is false, streamingContent is the empty string.
C36_IdleShowsNoAccumulator ==
    ~isStreaming => streamingContent = <<>>

\* ------------------------------------------------------------------ C38
\* C38: when no provider or no model is selected, or no key is saved for the
\* selected provider, calls of sendMessage create no chat, store no message
\* and no memory, do not set isStreaming and issue no request: every call
\* has returned at its guards.
C38_GuardedSendChangesNothing ==
    (~ProviderAndModelSelected \/ ~ApiKeySaved) =>
        /\ chats = <<>> /\ dbChats = {} /\ currentChatId = NoChat
        /\ messages = <<>> /\ dbMessages = <<>>
        /\ memories = <<>> /\ dbMemories = {}
        /\ ~isStreaming /\ streamingContent = <<>>
        /\ \A t \in Turns : turn[t].pc \in {"idle", "returned"} /\ turn[t].status = "none"

\* C38 witness: a provider and a model are selected, the only key saved is
\* another provider's, and a call has returned after its toast.
C38_Witness ==
    /\ ProviderAndModelSelected
    /\ ~ApiKeySaved
    /\ turn[1].pc = "returned"
    /\ turn[1].content = <<>>
    /\ BagIn(Toast("Please add an API key", "error"), toasts)
    /\ dbMessages = <<>>

\* ------------------------------------------------------------------ C37
\* init is past its reads of localStorage.
InitHasRead == initPc \in {"fetchModels", "getAllChats", "getAllMemories", "done"}

\* C37: once init has read localStorage, the prompt mode in state is the mode
\* that setPromptMode stored last, whichever of the four it is.
C37_PromptModeRestored ==
    (InitHasRead /\ localStorage.nexus_prompt_mode.kind = "value")
        => prefs.promptMode = localStorage.nexus_prompt_mode

\* ------------------------------------------------------------------ C34
\* C34: when no call of selectProvider is pending, availableModels is empty
\* or the model list of currentProviderId, and currentModelId is null or one
\* of availableModels.
C34_ModelsOfCurrentProvider ==
    (\A i \in 1..Len(sp) : ~sp[i].pending) =>
        /\ \/ availableModels = <<>>
           \/ /\ prefs.currentProviderId.kind = "value"
              /\ availableModels = ModelsOf(prefs.currentProviderId.v)
        /\ \/ prefs.currentModelId.kind = "null"
           \/ prefs.currentModelId.v \in Range(availableModels)

\* ------------------------------------------------------------------ C35
\* How many calls of toggleMemoryItem were made for id.
TimesToggled(id) == Cardinality({i \in 1..Len(tog.calls) : tog.calls[i] = id})

\* The memory of StoredMemories with this id, its flag flipped once per call.
AfterToggles(id) ==
    LET original == CHOOSE x \in Range(StoredMemories) : x.id = id
    IN [original EXCEPT !.enabled = IF TimesToggled(id) % 2 = 0 THEN original.enabled
                                    ELSE ~original.enabled]

\* C35: a write of toggleMemoryItem changes the memory of its id only, and of
\* it the enabled flag only, in the list and in the store; and when no write
\* is pending every memory has its flag flipped once per call, so that two
\* calls on one id restore it.
C35_ToggleFlipsOneFlag ==
    [][/\ \A j \in 1..Len(memories) :
            memories'[j] # memories[j] =>
               /\ memories'[j] = [memories[j] EXCEPT !.enabled = ~memories[j].enabled]
               /\ \A k \in 1..Len(memories) : k # j => memories'[k] = memories[k]
               /\ memories'[j] \in dbMemories'
       /\ tog'.pending = <<>> =>
            /\ \A j \in 1..Len(memories) : memories'[j] = AfterToggles(memories[j].id)'
            /\ dbMemories' = {AfterToggles(x.id)' : x \in Range(StoredMemories)}]_vars

============================================================================
